---- MODULE Spec2Model ----
(***************************************************************************)
(* GetPawsy: catalog search and search index (engine_search.py), upsell    *)
(* recommendations (engines/upsell_engine_v2.py), the scheduler lock       *)
(* (engine_scheduler.py) and the abandoned-cart, discount and loyalty      *)
(* engines (engines/*_v5.py).                                              *)
(*                                                                         *)
(* Text is a sequence of one-character strings, a product record (a Python *)
(* dict) is a function whose DOMAIN is the set of keys that are present,   *)
(* and a float score is an exact rational <<numerator, denominator>>.      *)
(***************************************************************************)
EXTENDS Integers, Sequences, FiniteSets, TLC

VARIABLES
    products,      \* data/products.json, the catalog engine_search.py loads
    catalog_exists,\* whether the file data/products.json exists
    search_index,  \* data/search_index.json as json.load reads it, NoIndex when there is none
    products_v5,   \* data/products_v5.json "products", the upsell catalog
    cart,          \* the shopper's cart, held by the caller of the upsell engine
    pc,            \* "idle": no call in progress; "done": a call has returned
    op,            \* the call that was made, with its arguments
    ret,           \* what the call returned
    lock_file,     \* data/.scheduler_lock of engine_scheduler.py
    clock,         \* datetime.now(), in whole hours
    runs,          \* the scheduler runs, each with the line it has reached
    abandoned_carts, \* data/abandoned_carts.json "carts"
    recovery_log,  \* data/recovery_emails_log.json
    coupons,       \* data/discounts.json "coupons"
    usage_log,     \* data/discount_usage.json
    accounts,      \* data/loyalty_accounts.json "accounts"
    transactions   \* data/loyalty_transactions.json

\* the files and the cart of the storefront
shop_vars == <<products, catalog_exists, search_index, products_v5, cart>>

\* the files of the scheduler and of the marketing engines, and the time
engine_vars ==
    <<lock_file, clock, runs, abandoned_carts, recovery_log, coupons, usage_log,
      accounts, transactions>>

vars == <<shop_vars, pc, op, ret, engine_vars>>

(***************************************************************************)
(* Python helpers                                                          *)
(***************************************************************************)
\* dict.get(key, default)
Get(d, k, default) == IF k \in DOMAIN d THEN d[k] ELSE default

Has(d, k) == k \in DOMAIN d

\* the value of dict.get(key) for a missing key
None == "<None>"

Range(s) == {s[i] : i \in 1..Len(s)}

Min2(a, b) == IF a <= b THEN a ELSE b

Max2(a, b) == IF a >= b THEN a ELSE b

Abs(x) == IF x < 0 THEN -x ELSE x

\* seq[:n] for n >= 0
Take(s, n) == SubSeq(s, 1, Min2(n, Len(s)))

RECURSIVE GCD(_, _)
GCD(a, b) == IF b = 0 THEN a ELSE GCD(b, a % b)

\* exact rationals n/d with d > 0, kept in lowest terms
Rat(n, d) ==
    LET g == GCD(Abs(n), d)
    IN  IF g = 0 THEN <<0, 1>> ELSE <<n \div g, d \div g>>

RInt(n) == <<n, 1>>

RAdd(x, y) == Rat(x[1] * y[2] + y[1] * x[2], x[2] * y[2])

RSub(x, y) == Rat(x[1] * y[2] - y[1] * x[2], x[2] * y[2])

RMul(x, y) == Rat(x[1] * y[1], x[2] * y[2])

RLeq(x, y) == x[1] * y[2] <= y[1] * x[2]

RLt(x, y) == x[1] * y[2] < y[1] * x[2]

RGeq(x, y) == RLeq(y, x)

RGt(x, y) == RLt(y, x)

RMax(x, y) == IF RGeq(x, y) THEN x ELSE y

\* sorted(seq, key=...) of Python: a stable sort.  before[i, j] says that the
\* key of s[i] orders strictly before the key of s[j]; elements with equal
\* keys keep their order.
StableSort(s, before) ==
    LET n == Len(s)
        rank(i) == 1 + Cardinality({j \in 1..n :
                        \/ before[j, i]
                        \/ (~before[i, j] /\ j < i)})
    IN  [r \in 1..n |-> s[CHOOSE i \in 1..n : rank(i) = r]]

(***************************************************************************)
(* Characters                                                              *)
(***************************************************************************)
UpperChars == <<"A","B","C","D","E","F","G","H","I","J","K","L","M",
                "N","O","P","Q","R","S","T","U","V","W","X","Y","Z">>

LowerChars == <<"a","b","c","d","e","f","g","h","i","j","k","l","m",
                "n","o","p","q","r","s","t","u","v","w","x","y","z">>

DigitChars == <<"0","1","2","3","4","5","6","7","8","9">>

\* str.lower() on one character
LowerOf == [i \in 1..26 |-> LowerChars[i]]

UpperSet == {UpperChars[i] : i \in 1..26}

UpperIndex == [c \in UpperSet |-> CHOOSE i \in 1..26 : UpperChars[i] = c]

LowerChar(c) == IF c \in UpperSet THEN LowerOf[UpperIndex[c]] ELSE c

lower(text) == [i \in 1..Len(text) |-> LowerChar(text[i])]

\* \w of the re module
WordChars == UpperSet \cup {LowerChars[i] : i \in 1..26} \cup {DigitChars[i] : i \in 1..10} \cup {"_"}

IsWordChar(c) == c \in WordChars

\* \s of the re module
IsSpaceChar(c) == c = " "

\* code points, for comparing lowered strings
CharOrder == <<" ", "!", "-">> \o DigitChars \o UpperChars \o <<"_">> \o LowerChars

CharCodes == [c \in {CharOrder[i] : i \in 1..Len(CharOrder)} |->
                CHOOSE i \in 1..Len(CharOrder) : CharOrder[i] = c]

CharCode(c) == CharCodes[c]

\* a < b for Python strings
RECURSIVE StrLess(_, _)
StrLess(a, b) ==
    IF b = <<>> THEN FALSE
    ELSE IF a = <<>> THEN TRUE
    ELSE IF Head(a) = Head(b) THEN StrLess(Tail(a), Tail(b))
    ELSE CharCode(Head(a)) < CharCode(Head(b))

\* q in t
SubstringOf(q, t) ==
    \E i \in 0..(Len(t) - Len(q)) : SubSeq(t, i + 1, i + Len(q)) = q

\* str.split(): the whitespace-separated words
RECURSIVE SplitFrom(_, _, _)
SplitFrom(s, cur, acc) ==
    IF s = <<>> THEN (IF cur = <<>> THEN acc ELSE Append(acc, cur))
    ELSE IF IsSpaceChar(Head(s))
         THEN SplitFrom(Tail(s), <<>>, IF cur = <<>> THEN acc ELSE Append(acc, cur))
         ELSE SplitFrom(Tail(s), Append(cur, Head(s)), acc)

split(s) == SplitFrom(s, <<>>, <<>>)

\* re.sub(r'[^\w\s]', ' ', text)
SubNonWord(text) ==
    [i \in 1..Len(text) |->
        IF IsWordChar(text[i]) \/ IsSpaceChar(text[i]) THEN text[i] ELSE " "]

\* re.sub(r'\s+', ' ', text)
RECURSIVE CollapseSpaces(_)
CollapseSpaces(text) ==
    IF text = <<>> THEN <<>>
    ELSE IF IsSpaceChar(Head(text))
         THEN IF Len(text) > 1 /\ IsSpaceChar(text[2])
              THEN CollapseSpaces(Tail(text))
              ELSE <<" ">> \o CollapseSpaces(Tail(text))
         ELSE <<Head(text)>> \o CollapseSpaces(Tail(text))

\* str.strip()
RECURSIVE strip(_)
strip(text) ==
    IF text = <<>> THEN <<>>
    ELSE IF IsSpaceChar(Head(text)) THEN strip(Tail(text))
    ELSE IF IsSpaceChar(text[Len(text)]) THEN strip(SubSeq(text, 1, Len(text) - 1))
    ELSE text

normalize_text(text) ==
    IF text = <<>> THEN <<>>
    ELSE strip(CollapseSpaces(SubNonWord(lower(text))))

(***************************************************************************)
(* difflib.SequenceMatcher(None, a, b).ratio(); no junk below 200 elements *)
(***************************************************************************)
\* length of the common run of a from offset i and b from offset j (0-based)
RECURSIVE RunLen(_, _, _, _, _, _)
RunLen(a, b, i, j, ahi, bhi) ==
    IF i < ahi /\ j < bhi /\ a[i + 1] = b[j + 1]
    THEN 1 + RunLen(a, b, i + 1, j + 1, ahi, bhi)
    ELSE 0

\* find_longest_match: the longest block, of those the one starting earliest
\* in a, of those the one starting earliest in b; <<alo, blo, 0>> when none
find_longest_match(a, b, alo, ahi, blo, bhi) ==
    LET run == [i \in alo..(ahi - 1), j \in blo..(bhi - 1) |-> RunLen(a, b, i, j, ahi, bhi)]
        lens == {run[i, j] : i \in alo..(ahi - 1), j \in blo..(bhi - 1)}
        k == CHOOSE x \in lens : \A y \in lens : y <= x
        besti == CHOOSE i \in alo..(ahi - 1) :
                    /\ \E j \in blo..(bhi - 1) : run[i, j] = k
                    /\ \A i2 \in alo..(i - 1) : \A j \in blo..(bhi - 1) : run[i2, j] # k
        bestj == CHOOSE j \in blo..(bhi - 1) :
                    /\ run[besti, j] = k
                    /\ \A j2 \in blo..(j - 1) : run[besti, j2] # k
    IN  IF alo >= ahi \/ blo >= bhi \/ k = 0 THEN <<alo, blo, 0>>
        ELSE <<besti, bestj, k>>

\* get_matching_blocks: total size of the blocks found left and right of the
\* longest one, recursively
RECURSIVE MatchCount(_, _, _, _, _, _)
MatchCount(a, b, alo, ahi, blo, bhi) ==
    LET m == find_longest_match(a, b, alo, ahi, blo, bhi)
    IN  IF m[3] = 0 THEN 0
        ELSE m[3] + MatchCount(a, b, alo, m[1], blo, m[2])
                  + MatchCount(a, b, m[1] + m[3], ahi, m[2] + m[3], bhi)

\* ratio() = 2.0 * matches / (len(a) + len(b)), and 1.0 when both are empty
ratio(a, b) ==
    IF Len(a) + Len(b) = 0 THEN RInt(1)
    ELSE Rat(2 * MatchCount(a, b, 0, Len(a), 0, Len(b)), Len(a) + Len(b))

(***************************************************************************)
(* engine_search.py                                                        *)
(***************************************************************************)
\* a fuzzy ratio counted from the threshold 0.6 instead of from 0
fuzzy_match_from_threshold(query, text) ==
    IF query = <<>> \/ text = <<>> THEN RInt(0)
    ELSE LET q == normalize_text(query)
             t == normalize_text(text)
             query_words == Range(split(q))
             text_words == Range(split(t))
             word_matches == Cardinality(query_words \cap text_words)
         IN  IF SubstringOf(q, t) THEN RInt(1)
             ELSE IF word_matches > 0
                  THEN RAdd(Rat(4, 5), RMul(Rat(word_matches, Cardinality(query_words)), Rat(1, 5)))
                  ELSE RSub(ratio(q, t), Rat(3, 5))

fuzzy_match(query, text) ==
    IF query = <<>> \/ text = <<>> THEN RInt(0)
    ELSE LET q == normalize_text(query)
             t == normalize_text(text)
             query_words == Range(split(q))
             text_words == Range(split(t))
             word_matches == Cardinality(query_words \cap text_words)
         IN  IF SubstringOf(q, t) THEN RInt(1)
             ELSE IF word_matches > 0
                  THEN RAdd(Rat(4, 5), RMul(Rat(word_matches, Cardinality(query_words)), Rat(1, 5)))
                  ELSE ratio(q, t)

\* sum of weight * fuzzy_match(query, item) over a list field
RECURSIVE SumMatches(_, _, _)
SumMatches(query, items, weight) ==
    IF items = <<>> THEN RInt(0)
    ELSE RAdd(RMul(fuzzy_match(query, Head(items)), RInt(weight)),
              SumMatches(query, Tail(items), weight))

\* truthiness of product.get("images")
HasImages(product) == Get(product, "images", <<>>) # <<>>

\* the title part of calculate_relevance, for a normalized query and title:
\* title_score * 100, and 50 more when the query is a substring of the title
TitleContribution(query_lower, title) ==
    RAdd(RMul(fuzzy_match(query_lower, title), RInt(100)),
         RInt(IF SubstringOf(query_lower, title) THEN 50 ELSE 0))

\* the relevance without the tags loop
calculate_relevance_no_tags(product, query) ==
    LET query_lower == normalize_text(query)
        title == normalize_text(Get(product, "title", <<>>))
        title_score == RMul(fuzzy_match(query_lower, title), RInt(100))
        title_bonus == IF SubstringOf(query_lower, title) THEN 50 ELSE 0
        seo_desc == normalize_text(Get(product, "seo_description", <<>>))
        desc_score == RMul(fuzzy_match(query_lower, seo_desc), RInt(15))
        bullets_score == SumMatches(query_lower, Get(product, "bullets", <<>>), 10)
        category == normalize_text(Get(product, "category_name", <<>>))
        category_bonus == IF SubstringOf(query_lower, category) THEN 25 ELSE 0
        animal == Get(product, "animal", <<>>)
        animal_bonus == IF SubstringOf(query_lower, lower(animal)) THEN 30 ELSE 0
        images_bonus == IF HasImages(product) THEN 5 ELSE 0
    IN  RAdd(RAdd(title_score, RAdd(desc_score, bullets_score)),
             RInt(title_bonus + category_bonus + animal_bonus + images_bonus))

calculate_relevance(product, query) ==
    LET query_lower == normalize_text(query)
        title == normalize_text(Get(product, "title", <<>>))
        title_score == RMul(fuzzy_match(query_lower, title), RInt(100))
        title_bonus == IF SubstringOf(query_lower, title) THEN 50 ELSE 0
        tags_score == SumMatches(query_lower, Get(product, "tags", <<>>), 20)
        seo_desc == normalize_text(Get(product, "seo_description", <<>>))
        desc_score == RMul(fuzzy_match(query_lower, seo_desc), RInt(15))
        bullets_score == SumMatches(query_lower, Get(product, "bullets", <<>>), 10)
        category == normalize_text(Get(product, "category_name", <<>>))
        category_bonus == IF SubstringOf(query_lower, category) THEN 25 ELSE 0
        animal == Get(product, "animal", <<>>)
        animal_bonus == IF SubstringOf(query_lower, lower(animal)) THEN 30 ELSE 0
        images_bonus == IF HasImages(product) THEN 5 ELSE 0
    IN  RAdd(RAdd(RAdd(title_score, tags_score), RAdd(desc_score, bullets_score)),
             RInt(title_bonus + category_bonus + animal_bonus + images_bonus))

\* a filter value is a number [num |-> n] or a string [str |-> text]
DigitSet == {DigitChars[i] : i \in 1..10}

IsDigits(text) == text # <<>> /\ \A i \in 1..Len(text) : text[i] \in DigitSet

RECURSIVE DecimalValue(_)
DecimalValue(text) ==
    IF text = <<>> THEN 0
    ELSE 10 * DecimalValue(SubSeq(text, 1, Len(text) - 1))
         + (CHOOSE d \in 0..9 : DigitChars[d + 1] = text[Len(text)])

\* float(v) raises ValueError on a string that is not a number
FloatRaises(v) == Has(v, "str") /\ ~IsDigits(v.str)

float(v) == IF Has(v, "num") THEN v.num ELSE DecimalValue(v.str)

NoFilters == [none |-> TRUE]

\* the key is present in filters (filters = None has no key)
FilterSet(filters, k) == Has(filters, k)

\* p.get("price") or default
PriceOr(p, default) ==
    IF Has(p, "price") /\ p.price # 0 THEN p.price ELSE default

MissingPriceMax == 999999

\* the ValueError of float() on a price bound escapes apply_filters
apply_filters_raises(filters) ==
    \/ FilterSet(filters, "price_min") /\ FloatRaises(filters.price_min)
    \/ FilterSet(filters, "price_max") /\ FloatRaises(filters.price_max)

\* the animal filter lets a product without an animal field through
apply_filters_animal_default(prods, filters) ==
    LET KeepCategory(p) ==
            \/ ~(FilterSet(filters, "category") /\ filters.category # <<>>)
            \/ SubstringOf(lower(filters.category), lower(Get(p, "category_slug", <<>>)))
            \/ SubstringOf(lower(filters.category), lower(Get(p, "product_type", <<>>)))
        KeepAnimal(p) ==
            \/ ~(FilterSet(filters, "animal") /\ filters.animal # <<>>)
            \/ lower(Get(p, "animal", filters.animal)) = lower(filters.animal)
        KeepMin(p) ==
            \/ ~FilterSet(filters, "price_min")
            \/ PriceOr(p, 0) >= float(filters.price_min)
        KeepMax(p) ==
            \/ ~FilterSet(filters, "price_max")
            \/ PriceOr(p, MissingPriceMax) <= float(filters.price_max)
        KeepImages(p) ==
            \/ ~(FilterSet(filters, "has_images") /\ filters.has_images)
            \/ HasImages(p)
        Keep(p) == KeepCategory(p) /\ KeepAnimal(p) /\ KeepMin(p) /\ KeepMax(p) /\ KeepImages(p)
    IN  SelectSeq(prods, Keep)

apply_filters(prods, filters) ==
    LET KeepCategory(p) ==
            \/ ~(FilterSet(filters, "category") /\ filters.category # <<>>)
            \/ SubstringOf(lower(filters.category), lower(Get(p, "category_slug", <<>>)))
            \/ SubstringOf(lower(filters.category), lower(Get(p, "product_type", <<>>)))
        KeepAnimal(p) ==
            \/ ~(FilterSet(filters, "animal") /\ filters.animal # <<>>)
            \/ lower(Get(p, "animal", <<>>)) = lower(filters.animal)
        KeepMin(p) ==
            \/ ~FilterSet(filters, "price_min")
            \/ PriceOr(p, 0) >= float(filters.price_min)
        KeepMax(p) ==
            \/ ~FilterSet(filters, "price_max")
            \/ PriceOr(p, MissingPriceMax) <= float(filters.price_max)
        KeepImages(p) ==
            \/ ~(FilterSet(filters, "has_images") /\ filters.has_images)
            \/ HasImages(p)
        Keep(p) == KeepCategory(p) /\ KeepAnimal(p) /\ KeepMin(p) /\ KeepMax(p) /\ KeepImages(p)
    IN  SelectSeq(prods, Keep)

\* relevance order obtained as sorted(..., key=score)[::-1]: ties come out reversed
sort_products_reversed(prods, sort_by, scores) ==
    LET ScoreOf(p) == IF Get(p, "id", 0) \in DOMAIN scores THEN scores[Get(p, "id", 0)] ELSE RInt(0)
        ByScoreAsc(a, b) == RLt(ScoreOf(a), ScoreOf(b))
        ByPriceAsc(a, b) == PriceOr(a, 0) < PriceOr(b, 0)
        ByPriceDesc(a, b) == PriceOr(a, 0) > PriceOr(b, 0)
        ByName(a, b) == StrLess(lower(Get(a, "title", <<>>)), lower(Get(b, "title", <<>>)))
        Sorted(Before(_, _)) ==
            StableSort(prods, [i \in 1..Len(prods), j \in 1..Len(prods) |->
                                  Before(prods[i], prods[j])])
        asc == Sorted(ByScoreAsc)
    IN  IF sort_by = "relevance" /\ DOMAIN scores # {}
        THEN [i \in 1..Len(asc) |-> asc[Len(asc) + 1 - i]]
        ELSE IF sort_by = "price_low" THEN Sorted(ByPriceAsc)
        ELSE IF sort_by = "price_high" THEN Sorted(ByPriceDesc)
        ELSE IF sort_by = "name" THEN Sorted(ByName)
        ELSE prods

\* price_high with a product without a price counted as 999999
sort_products_missing_high(prods, sort_by, scores) ==
    LET ScoreOf(p) == IF Get(p, "id", 0) \in DOMAIN scores THEN scores[Get(p, "id", 0)] ELSE RInt(0)
        ByScoreDesc(a, b) == RGt(ScoreOf(a), ScoreOf(b))
        ByPriceAsc(a, b) == PriceOr(a, 0) < PriceOr(b, 0)
        ByPriceDesc(a, b) == PriceOr(a, MissingPriceMax) > PriceOr(b, MissingPriceMax)
        ByName(a, b) == StrLess(lower(Get(a, "title", <<>>)), lower(Get(b, "title", <<>>)))
        Sorted(Before(_, _)) ==
            StableSort(prods, [i \in 1..Len(prods), j \in 1..Len(prods) |->
                                  Before(prods[i], prods[j])])
    IN  IF sort_by = "relevance" /\ DOMAIN scores # {} THEN Sorted(ByScoreDesc)
        ELSE IF sort_by = "price_low" THEN Sorted(ByPriceAsc)
        ELSE IF sort_by = "price_high" THEN Sorted(ByPriceDesc)
        ELSE IF sort_by = "name" THEN Sorted(ByName)
        ELSE prods

\* scores is the dict of search_products: product id -> score
sort_products(prods, sort_by, scores) ==
    LET ScoreOf(p) == IF Get(p, "id", 0) \in DOMAIN scores THEN scores[Get(p, "id", 0)] ELSE RInt(0)
        ByScoreDesc(a, b) == RGt(ScoreOf(a), ScoreOf(b))
        ByPriceAsc(a, b) == PriceOr(a, 0) < PriceOr(b, 0)
        ByPriceDesc(a, b) == PriceOr(a, 0) > PriceOr(b, 0)
        ByName(a, b) == StrLess(lower(Get(a, "title", <<>>)), lower(Get(b, "title", <<>>)))
        Sorted(Before(_, _)) ==
            StableSort(prods, [i \in 1..Len(prods), j \in 1..Len(prods) |->
                                  Before(prods[i], prods[j])])
    IN  IF sort_by = "relevance" /\ DOMAIN scores # {} THEN Sorted(ByScoreDesc)
        ELSE IF sort_by = "price_low" THEN Sorted(ByPriceAsc)
        ELSE IF sort_by = "price_high" THEN Sorted(ByPriceDesc)
        ELSE IF sort_by = "name" THEN Sorted(ByName)
        ELSE prods

\* a lower threshold
min_score_low == 10 \div 2

min_score == 10

\* the scores dict: a later product overwrites an earlier one with the same id
Scores(prods, query) ==
    [id \in {Get(prods[i], "id", 0) : i \in 1..Len(prods)} |->
        LET last == CHOOSE i \in 1..Len(prods) :
                       /\ Get(prods[i], "id", 0) = id
                       /\ \A j \in (i + 1)..Len(prods) : Get(prods[j], "id", 0) # id
        IN  calculate_relevance(prods[last], query)]

\* the search without the early return for an empty catalog
search_products_unguarded(prods, query, filters, sort_by, limit) ==
    LET scores == Scores(prods, query)
        IsMatched(p) == RGeq(scores[Get(p, "id", 0)], RInt(min_score))
        matched == SelectSeq(prods, IsMatched)
        filtered == apply_filters(matched, filters)
        sorted_results == sort_products(filtered, sort_by, scores)
    IN  IF apply_filters_raises(filters) THEN [error |-> "ValueError"]
        ELSE [results |-> Take(sorted_results, limit),
              total |-> Len(filtered),
              query |-> query,
              filters |-> filters,
              sort |-> sort_by]

search_products(prods, query, filters, sort_by, limit) ==
    IF prods = <<>> THEN [results |-> <<>>, total |-> 0, query |-> query]
    ELSE LET scores == Scores(prods, query)
             IsMatched(p) == RGeq(scores[Get(p, "id", 0)], RInt(min_score))
             matched == SelectSeq(prods, IsMatched)
             filtered == apply_filters(matched, filters)
             sorted_results == sort_products(filtered, sort_by, scores)
         IN  IF apply_filters_raises(filters) THEN [error |-> "ValueError"]
             ELSE [results |-> Take(sorted_results, limit),
                   total |-> Len(filtered),
                   query |-> query,
                   filters |-> filters,
                   sort |-> sort_by]

(***************************************************************************)
(* engine_search.py: the search index.  A dict of the index whose order of *)
(* keys shows in a result (terms, categories, animals) is the sequence of  *)
(* its entries [key, ids] in insertion order.                              *)
(***************************************************************************)
\* there is no file data/search_index.json
NoIndex == [none |-> TRUE]

EmptyIndex == [products |-> <<>>, terms |-> <<>>, categories |-> <<>>, animals |-> <<>>]

\* if key not in table: table[key] = []; table[key].append(pid)
Post(table, key, pid) ==
    IF \E i \in 1..Len(table) : table[i].key = key
    THEN [i \in 1..Len(table) |->
             IF table[i].key = key
             THEN [key |-> key, ids |-> Append(table[i].ids, pid)]
             ELSE table[i]]
    ELSE Append(table, [key |-> key, ids |-> <<pid>>])

\* Post for each key of a list, in order
RECURSIVE PostAll(_, _, _)
PostAll(table, keys, pid) ==
    IF keys = <<>> THEN table
    ELSE PostAll(Post(table, Head(keys), pid), Tail(keys), pid)

\* the body of the loop of build_search_index for one product; an id 0 is falsy
IndexProduct(index, product) ==
    LET pid == Get(product, "id", 0)
        entry == [title |-> Get(product, "title", None),
                  price |-> Get(product, "price", None),
                  image |-> IF HasImages(product) THEN product.images[1] ELSE None]
        title == normalize_text(Get(product, "title", <<>>))
        IsLong(word) == Len(word) > 2
        words == SelectSeq(split(title), IsLong)
        tags == Get(product, "tags", <<>>)
        IsTruthy(tag_norm) == tag_norm # <<>>
        tag_norms == SelectSeq([i \in 1..Len(tags) |-> normalize_text(tags[i])], IsTruthy)
        cat == Get(product, "category_slug", <<"o","t","h","e","r">>)
        animal == Get(product, "animal", <<"d","o","g">>)
    IN  IF pid = 0 THEN index
        ELSE [products |-> [k \in DOMAIN index.products \cup {pid} |->
                               IF k = pid THEN entry ELSE index.products[k]],
              terms |-> PostAll(index.terms, words \o tag_norms, pid),
              categories |-> Post(index.categories, cat, pid),
              animals |-> Post(index.animals, animal, pid)]

RECURSIVE IndexProducts(_, _)
IndexProducts(index, prods) ==
    IF prods = <<>> THEN index
    ELSE IndexProducts(IndexProduct(index, Head(prods)), Tail(prods))

\* the index build_search_index returns for the catalog it loaded
build_search_index(prods) == IndexProducts(EmptyIndex, prods)

\* str(n) of a non-negative int
RECURSIVE IntText(_)
IntText(n) ==
    IF n < 10 THEN <<DigitChars[n + 1]>>
    ELSE IntText(n \div 10) \o <<DigitChars[(n % 10) + 1]>>

\* what json.load reads from what json.dump wrote: the int keys of
\* index["products"] have become strings
json_dump(index) ==
    [index EXCEPT !.products =
        [k \in {IntText(pid) : pid \in DOMAIN index.products} |->
            index.products[DecimalValue(k)]]]

\* the file is stored over what it held, without merging
write_index_updating(stored, index) ==
    IF stored = NoIndex THEN json_dump(index)
    ELSE LET Keys(table) == {table[i].key : i \in 1..Len(table)}
             Updated(old, new) ==
                 LET IsStale(e) == e.key \notin Keys(new)
                 IN  SelectSeq(old, IsStale) \o new
         IN  [products |-> json_dump(index).products,
              terms |-> Updated(stored.terms, index.terms),
              categories |-> Updated(stored.categories, index.categories),
              animals |-> Updated(stored.animals, index.animals)]

\* open("data/search_index.json", "w") and json.dump(index, f): what the
\* file held is gone
write_index(stored, index) == json_dump(index)

\* the index get_suggestions works on: the stored one, built first when
\* there is none
read_index(stored, prods) ==
    IF stored = NoIndex THEN write_index(stored, build_search_index(prods)) ELSE stored

\* term.startswith(query_norm)
startswith(term, prefix) ==
    Len(prefix) <= Len(term) /\ SubSeq(term, 1, Len(prefix)) = prefix

\* the suggestions in the order of the terms of the index
get_suggestions_unsorted(stored, prods, query, limit) ==
    LET index == read_index(stored, prods)
        query_norm == normalize_text(query)
        IsMatch(e) == startswith(e.key, query_norm)
        matching == SelectSeq(index.terms, IsMatch)
        suggestions == [i \in 1..Len(matching) |->
                           [term |-> matching[i].key, count |-> Len(matching[i].ids)]]
    IN  Take(suggestions, limit)

get_suggestions(stored, prods, query, limit) ==
    LET index == read_index(stored, prods)
        query_norm == normalize_text(query)
        IsMatch(e) == startswith(e.key, query_norm)
        matching == SelectSeq(index.terms, IsMatch)
        suggestions == [i \in 1..Len(matching) |->
                           [term |-> matching[i].key, count |-> Len(matching[i].ids)]]
        sorted == StableSort(suggestions,
                             [i \in 1..Len(suggestions), j \in 1..Len(suggestions) |->
                                 suggestions[i].count > suggestions[j].count])
    IN  Take(sorted, limit)

(***************************************************************************)
(* engines/upsell_engine_v2.py.  A tag, a category and a badge are only    *)
(* ever compared for equality and are strings here; a rating is held in    *)
(* tenths (45 is 4.5), so that rating thresholds and products are exact.   *)
(***************************************************************************)
ToSet(s) == {s[i] : i \in 1..Len(s)}

\* the ranking taken from the end of an ascending sort: candidates of equal
\* score come out in reverse order
TopByScore_ties_reversed(candidates, limit) ==
    LET Lower(x, y) == RLt(x[2], y[2])
        asc == StableSort(candidates, [i \in 1..Len(candidates), j \in 1..Len(candidates) |->
                             Lower(candidates[i], candidates[j])])
        ranked == [i \in 1..Len(asc) |-> asc[Len(asc) + 1 - i]]
    IN  [i \in 1..Min2(limit, Len(ranked)) |-> ranked[i][1]]

\* [c[0] for c in candidates[:limit]] after candidates.sort(key=score, reverse=True);
\* a candidate is <<product, score>>
TopByScore(candidates, limit) ==
    LET Higher(x, y) == RGt(x[2], y[2])
        ranked == StableSort(candidates, [i \in 1..Len(candidates), j \in 1..Len(candidates) |->
                                Higher(candidates[i], candidates[j])])
    IN  [i \in 1..Min2(limit, Len(ranked)) |-> ranked[i][1]]

\* p.get("rating", 0), in tenths
Rating(p) == Get(p, "rating", 0)

\* the price part of calculate_similarity_score:
\* max(0, 20 - price_diff * 40) with price_diff = abs(price1 - price2) / max(price1, price2)
price_score(price1, price2) ==
    IF price1 > 0 /\ price2 > 0
    THEN RMax(RInt(0), RSub(RInt(20),
                            RMul(Rat(Abs(price1 - price2), Max2(price1, price2)), RInt(40))))
    ELSE RInt(0)

calculate_similarity_score(product1, product2) ==
    LET category == IF Get(product1, "category", None) = Get(product2, "category", None)
                    THEN RInt(30) ELSE RInt(0)
        tags1 == ToSet(Get(product1, "tags", <<>>))
        tags2 == ToSet(Get(product2, "tags", <<>>))
        overlap == IF tags1 # {} /\ tags2 # {}
                   THEN RMul(Rat(Cardinality(tags1 \cap tags2), Cardinality(tags1 \cup tags2)), RInt(40))
                   ELSE RInt(0)
        price1 == Get(product1, "price", 0)
        price2 == Get(product2, "price", 0)
        rating2 == Rating(product2)
        rating_score == IF rating2 >= 45 THEN RInt(10)
                        ELSE IF rating2 >= 40 THEN RInt(5) ELSE RInt(0)
    IN  RAdd(RAdd(category, overlap), RAdd(price_score(price1, price2), rating_score))

\* the popularity score without the Bestseller bonus
PopularScore_no_badge(p) ==
    RAdd(Rat(Rating(p) * 20, 10), Rat(Get(p, "reviews_count", 0), 10))

\* the score get_popular_products gives a product
PopularScore(p) ==
    RAdd(RAdd(Rat(Rating(p) * 20, 10), Rat(Get(p, "reviews_count", 0), 10)),
         IF Get(p, "badge", None) = "Bestseller" THEN RInt(50) ELSE RInt(0))

get_popular_products(prods, limit) ==
    LET IsPublished(p) == Get(p, "published", TRUE)
        kept == SelectSeq(prods, IsPublished)
        scored == [i \in 1..Len(kept) |-> <<kept[i], PopularScore(kept[i])>>]
    IN  TopByScore(scored, limit)

\* the score get_upsells_for_product gives a candidate p
UpsellScore(source_product, p) ==
    LET source_price == Get(source_product, "price", 0)
        p_price == Get(p, "price", 0)
    IN  RAdd(calculate_similarity_score(source_product, p),
             IF p_price > source_price /\ 2 * p_price <= 3 * source_price
             THEN RInt(15) ELSE RInt(0))

\* a product without a stock field counts as in stock
get_upsells_for_product_stock_default(prods, product_id, limit) ==
    LET found == {i \in 1..Len(prods) : Get(prods[i], "id", None) = product_id}
        source_product == prods[CHOOSE i \in found : \A j \in found : i <= j]
        IsCandidate(p) ==
            /\ Get(p, "id", None) # product_id
            /\ Get(p, "published", TRUE)
            /\ Get(p, "stock", 1) > 0
        kept == SelectSeq(prods, IsCandidate)
        candidates == [i \in 1..Len(kept) |-> <<kept[i], UpsellScore(source_product, kept[i])>>]
    IN  IF found = {} THEN get_popular_products(prods, limit)
        ELSE TopByScore(candidates, limit)

get_upsells_for_product(prods, product_id, limit) ==
    LET found == {i \in 1..Len(prods) : Get(prods[i], "id", None) = product_id}
        source_product == prods[CHOOSE i \in found : \A j \in found : i <= j]
        IsCandidate(p) ==
            /\ Get(p, "id", None) # product_id
            /\ Get(p, "published", TRUE)
            /\ Get(p, "stock", 0) > 0
        kept == SelectSeq(prods, IsCandidate)
        candidates == [i \in 1..Len(kept) |-> <<kept[i], UpsellScore(source_product, kept[i])>>]
    IN  IF found = {} THEN get_popular_products(prods, limit)
        ELSE TopByScore(candidates, limit)

\* the score get_cart_upsells gives a candidate p
CartScore(cart_items, p) ==
    LET categories == {Get(cart_items[i], "category", "") : i \in 1..Len(cart_items)}
        tags == UNION {ToSet(Get(cart_items[i], "tags", <<>>)) : i \in 1..Len(cart_items)}
        p_tags == ToSet(Get(p, "tags", <<>>))
        p_price == Get(p, "price", 0)
    IN  RAdd(RAdd(IF Get(p, "category", None) \in categories THEN RInt(20) ELSE RInt(0),
                  IF p_tags \cap tags # {}
                  THEN RMul(Rat(Cardinality(p_tags \cap tags), Cardinality(p_tags \cup tags)), RInt(30))
                  ELSE RInt(0)),
             RInt((IF p_price < 20 THEN 25 ELSE IF p_price < 40 THEN 15 ELSE 0)
                  + (IF Get(p, "badge", None) \in {"Bestseller", "Hot", "Trending"} THEN 10 ELSE 0)
                  + (IF Rating(p) >= 45 THEN 10 ELSE 0)))

ItemIds(items) == {Get(items[i], "id", None) : i \in 1..Len(items)}

get_cart_upsells(prods, cart_items, limit) ==
    LET cart_ids == ItemIds(cart_items)
        IsCandidate(p) ==
            /\ Get(p, "id", None) \notin cart_ids
            /\ Get(p, "published", TRUE)
            /\ Get(p, "stock", 0) > 0
        kept == SelectSeq(prods, IsCandidate)
        candidates == [i \in 1..Len(kept) |-> <<kept[i], CartScore(cart_items, kept[i])>>]
    IN  TopByScore(candidates, limit)

\* the score get_checkout_upsells gives a candidate p
CheckoutScore(p) ==
    LET p_price == Get(p, "price", 0)
    IN  RInt((IF p_price <= 15 THEN 40 ELSE IF p_price <= 25 THEN 20 ELSE 0)
             + (IF Get(p, "badge", None) \in {"Bestseller", "Hot"} THEN 20 ELSE 0)
             + (IF Rating(p) >= 47 THEN 15 ELSE 0)
             + (IF "bundle" \in ToSet(Get(p, "tags", <<>>)) \/ Get(p, "is_bundle", FALSE)
                THEN 10 ELSE 0))

get_checkout_upsells(prods, cart_items, limit) ==
    LET cart_ids == ItemIds(cart_items)
        IsCandidate(p) ==
            /\ Get(p, "id", None) \notin cart_ids
            /\ Get(p, "published", TRUE)
        kept == SelectSeq(prods, IsCandidate)
        candidates == [i \in 1..Len(kept) |-> <<kept[i], CheckoutScore(kept[i])>>]
    IN  TopByScore(candidates, limit)

\* the score get_post_purchase_upsells gives a candidate p
PostPurchaseScore(order_items, p) ==
    LET categories == {Get(order_items[i], "category", "") : i \in 1..Len(order_items)}
    IN  RInt((IF Get(p, "category", None) \in categories THEN 25 ELSE 0)
             + (IF Get(p, "badge", None) \in {"Bestseller", "New", "Trending"} THEN 15 ELSE 0)
             + (Rating(p) - 40) * 2)

get_post_purchase_upsells(prods, order_items, limit) ==
    LET order_ids == ItemIds(order_items)
        IsCandidate(p) ==
            /\ Get(p, "id", None) \notin order_ids
            /\ Get(p, "published", TRUE)
        kept == SelectSeq(prods, IsCandidate)
        candidates == [i \in 1..Len(kept) |-> <<kept[i], PostPurchaseScore(order_items, kept[i])>>]
    IN  TopByScore(candidates, limit)

\* product_id 0 stands for a falsy product_id (None); the function has no
\* parameter for the cart and passes an empty list in its place
get_ai_recommendations(prods, product_id, context, limit) ==
    IF context = "product" /\ product_id # 0 THEN get_upsells_for_product(prods, product_id, limit)
    ELSE IF context = "cart" THEN get_cart_upsells(prods, <<>>, limit)
    ELSE IF context = "checkout" THEN get_checkout_upsells(prods, <<>>, limit)
    ELSE IF context = "post_purchase" THEN get_post_purchase_upsells(prods, <<>>, limit)
    ELSE get_popular_products(prods, limit)

(***************************************************************************)
(* Catalogs and inputs of the search engine                                *)
(***************************************************************************)
MaxProducts == 2

MaxLimit == 2

\* the catalog of end-to-end scenarios 1 and 2
Scenario1Catalog ==
    << [id |-> 1,
        title |-> <<"S","q","u","e","a","k","y"," ","D","o","g"," ","B","a","l","l">>,
        tags |-> << <<"d","o","g">>, <<"t","o","y">> >>,
        price |-> 8],
       [id |-> 2,
        title |-> <<"C","a","t"," ","F","e","a","t","h","e","r"," ","W","a","n","d">>,
        tags |-> << <<"c","a","t">>, <<"t","o","y">> >>,
        price |-> 10] >>

\* product records without their id
SearchBodies ==
    { [title |-> <<"d","o","g">>, tags |-> << <<"t","o","y">> >>, price |-> 8,
       animal |-> <<"d","o","g">>],
      [title |-> <<"C","a","t">>, tags |-> << <<"t","o","y">> >>, price |-> 10,
       animal |-> <<"C","a","t">>, category_slug |-> <<"t","o","y","s">>],
      [title |-> <<"D","o","g","-","T","o","y">>, images |-> << <<"a">> >>],
      [title |-> <<"b","e","d">>, price |-> 0, product_type |-> <<"b","e","d","s">>] }

WithId(body, id) ==
    [k \in DOMAIN body \cup {"id"} |-> IF k = "id" THEN id ELSE body[k]]

\* catalogs of at most max different products with unique ids; the ids are
\* rotated by one (2, 1 and 2, 3, 1), so that catalog order is not id order
CatalogsOf(bodies, max) ==
    UNION { { [i \in 1..n |-> WithId(bs[i], (i % n) + 1)] :
                bs \in {f \in [1..n -> bodies] : \A i, j \in 1..n : f[i] = f[j] => i = j} } :
            n \in 0..max }

SearchCatalogs == CatalogsOf(SearchBodies, MaxProducts) \cup {Scenario1Catalog}

Queries ==
    { <<>>, <<" ">>, <<"d","o","g">>, <<"t","o","y">>, <<"d","o","g"," ","t","o","y">> }

FilterInputs ==
    { NoFilters,
      [animal |-> <<"c","a","t">>],
      [category |-> <<"T","o","y">>],
      [price_min |-> [num |-> 8]],
      [price_max |-> [num |-> 8]],
      [price_min |-> [str |-> <<"a","b","c">>]],
      [price_min |-> [num |-> 0], price_max |-> [num |-> 10]],
      [has_images |-> TRUE] }

SortKeys == {"relevance", "price_low", "price_high", "name", "newest"}

\* limit=50 when the caller of search_products gives none
DefaultSearchLimit == 50

SearchLimits == 0..MaxLimit \cup {DefaultSearchLimit}

NoOp == [name |-> "none"]

NoRet == [none |-> TRUE]

\* there is no file data/.scheduler_lock
NoLockFile == [exists |-> FALSE]

\* no scheduler run, and no file of a marketing engine is there yet
EnginesIdle ==
    /\ lock_file = NoLockFile
    /\ clock = 0
    /\ runs = <<>>
    /\ abandoned_carts = <<>>
    /\ recovery_log = <<>>
    /\ coupons = <<>>
    /\ usage_log = <<>>
    /\ accounts = <<>>
    /\ transactions = <<>>

\* nothing of the storefront is there: no catalog, no index, an empty cart
ShopIdle ==
    /\ products = <<>>
    /\ catalog_exists = FALSE
    /\ search_index = NoIndex
    /\ products_v5 = <<>>
    /\ cart = <<>>

\* load_products() of engine_search.py: the stored list, [] when there is no file
load_products == IF catalog_exists THEN products ELSE <<>>

InitSearch ==
    /\ catalog_exists \in BOOLEAN
    /\ products \in (IF catalog_exists THEN SearchCatalogs ELSE {<<>>})
    /\ search_index = NoIndex
    /\ products_v5 = <<>>
    /\ cart = <<>>
    /\ pc = "idle"
    /\ op = NoOp
    /\ ret = NoRet
    /\ EnginesIdle

\* search_products writing its ranked results back as the catalog
CallSearch_storing_results(query, filters, sort_by, limit) ==
    LET r == search_products(load_products, query, filters, sort_by, limit) IN
    /\ pc = "idle"
    /\ pc' = "done"
    /\ op' = [name |-> "search_products", query |-> query, filters |-> filters,
              sort_by |-> sort_by, limit |-> limit]
    /\ ret' = r
    /\ products' = IF Has(r, "filters") THEN r.results ELSE products
    /\ UNCHANGED <<catalog_exists, search_index, products_v5, cart, engine_vars>>

\* a caller runs search_products(query, filters, sort_by, limit)
CallSearch(query, filters, sort_by, limit) ==
    /\ pc = "idle"
    /\ pc' = "done"
    /\ op' = [name |-> "search_products", query |-> query, filters |-> filters,
              sort_by |-> sort_by, limit |-> limit]
    /\ ret' = search_products(load_products, query, filters, sort_by, limit)
    /\ UNCHANGED <<products, catalog_exists, search_index, products_v5, cart, engine_vars>>

\* the caller has taken the result; the next call can be made
Return ==
    /\ pc = "done"
    /\ pc' = "idle"
    /\ op' = NoOp
    /\ ret' = NoRet
    /\ UNCHANGED <<products, catalog_exists, search_index, products_v5, cart, engine_vars>>

NextSearch ==
    \/ \E query \in Queries, filters \in FilterInputs, sort_by \in SortKeys, limit \in SearchLimits :
          CallSearch(query, filters, sort_by, limit)
    \/ Return

SpecSearch == InitSearch /\ [][NextSearch]_vars

(***************************************************************************)
(* Catalogs and inputs of the search index                                 *)
(***************************************************************************)
\* product records without their id: a tag that repeats a word of the title,
\* a word twice in the title, a tag of two words, a word of one letter
IndexBodies ==
    { [title |-> <<"D","o","g"," ","t","o","y">>, tags |-> << <<"d","o","g">> >>,
       animal |-> <<"c","a","t">>, category_slug |-> <<"t","o","y","s">>, price |-> 8],
      [title |-> <<"C","a","t"," ","c","a","t">>,
       tags |-> << <<"t","o","y">>, <<"D","o","g"," ","t","o","y","!">> >>],
      [title |-> <<"A"," ","d","o","g","-","b","e","d">>, images |-> << <<"a">> >>] }

IndexCatalogs == CatalogsOf(IndexBodies, MaxProducts)

SuggestionQueries == { <<>>, <<"D">>, <<"d","o">>, <<"t">>, <<"z">> }

\* limit=5 when the caller of get_suggestions gives none
DefaultSuggestionLimit == 5

SuggestionLimits == 0..MaxLimit \cup {DefaultSuggestionLimit}

InitIndex ==
    /\ catalog_exists \in BOOLEAN
    /\ products \in (IF catalog_exists THEN IndexCatalogs ELSE {<<>>})
    /\ search_index = NoIndex
    /\ products_v5 = <<>>
    /\ cart = <<>>
    /\ pc = "idle"
    /\ op = NoOp
    /\ ret = NoRet
    /\ EnginesIdle

\* build_search_index(): the index is built from the catalog, stored and returned
CallBuildSearchIndex ==
    /\ pc' = "done"
    /\ op' = [name |-> "build_search_index"]
    /\ search_index' = write_index(search_index, build_search_index(load_products))
    /\ ret' = build_search_index(load_products)
    /\ UNCHANGED <<products, catalog_exists, products_v5, cart, engine_vars>>

\* get_suggestions(query, limit); the index it had to build stays stored
CallGetSuggestions(query, limit) ==
    /\ pc' = "done"
    /\ op' = [name |-> "get_suggestions", query |-> query, limit |-> limit]
    /\ search_index' = read_index(search_index, load_products)
    /\ ret' = get_suggestions(search_index, load_products, query, limit)
    /\ UNCHANGED <<products, catalog_exists, products_v5, cart, engine_vars>>

\* save_json_db(data) of engine_import.py stores another catalog
SaveJsonDb(data) ==
    /\ pc' = "done"
    /\ op' = [name |-> "save_json_db"]
    /\ products' = data
    /\ catalog_exists' = TRUE
    /\ ret' = NoRet
    /\ UNCHANGED <<search_index, products_v5, cart, engine_vars>>

\* one call after the other: the catalog is stored, the index is built,
\* suggestions are asked for, in any order
NextIndex ==
    \/ CallBuildSearchIndex
    \/ \E query \in SuggestionQueries, limit \in SuggestionLimits :
          CallGetSuggestions(query, limit)
    \/ \E data \in IndexCatalogs : SaveJsonDb(data)

SpecIndex == InitIndex /\ [][NextIndex]_vars

(***************************************************************************)
(* Catalogs and inputs of the upsell engine                                *)
(***************************************************************************)
MaxProductsV5 == 2

MaxCart == 2

\* limit=3 when the caller of a recommendation function gives none
DefaultUpsellLimit == 3

UpsellLimits == 0..MaxLimit \cup {DefaultUpsellLimit}

\* the catalog of end-to-end scenario 3, as given
Scenario3Catalog ==
    << [id |-> 1, price |-> 8, category |-> "toys"],
       [id |-> 3, price |-> 10, category |-> "toys", tags |-> <<"dog", "toy">>],
       [id |-> 4, price |-> 50, category |-> "beds"] >>

\* the same catalog with its two candidates in stock
Scenario3InStock ==
    << [id |-> 1, price |-> 8, category |-> "toys"],
       [id |-> 3, price |-> 10, category |-> "toys", tags |-> <<"dog", "toy">>, stock |-> 5],
       [id |-> 4, price |-> 50, category |-> "beds", stock |-> 5] >>

\* product records without their id
UpsellBodies ==
    { [category |-> "toys", tags |-> <<"dog", "toy">>, price |-> 8, rating |-> 45,
       stock |-> 5, published |-> TRUE, reviews_count |-> 10],
      [category |-> "toys", tags |-> <<"dog", "toy">>, price |-> 10, rating |-> 40,
       stock |-> 0, published |-> TRUE, badge |-> "Bestseller", reviews_count |-> 30],
      [category |-> "beds", price |-> 50, rating |-> 49, stock |-> 3, published |-> FALSE],
      [category |-> "beds", price |-> 50, stock |-> 2],
      [category |-> "food", price |-> 30, rating |-> 20, stock |-> 1, reviews_count |-> 5] }

\* a seed (id 1) and four candidates that differ from each other in price only;
\* ids 4 and 3 have the same price, and catalog order is not id order
PriceLadderCatalog ==
    << [id |-> 1, category |-> "toys", price |-> 10, stock |-> 5],
       [id |-> 5, category |-> "toys", price |-> 6, stock |-> 5],
       [id |-> 4, category |-> "toys", price |-> 15, stock |-> 5],
       [id |-> 3, category |-> "toys", price |-> 15, stock |-> 5],
       [id |-> 2, category |-> "toys", price |-> 10, stock |-> 5] >>

UpsellCatalogs ==
    CatalogsOf(UpsellBodies, MaxProductsV5)
        \cup {Scenario3Catalog, Scenario3InStock, PriceLadderCatalog}

\* a cart item is the product record with a quantity
CartItem(p) == [k \in DOMAIN p \cup {"quantity"} |-> IF k = "quantity" THEN 1 ELSE p[k]]

\* the carts of at most MaxCart distinct products of the catalog, in catalog order
CartsOf(prods) ==
    { [k \in 1..Cardinality(S) |->
          CartItem(prods[CHOOSE i \in S : Cardinality({j \in S : j < i}) = k - 1])] :
      S \in {T \in SUBSET (1..Len(prods)) : Cardinality(T) <= MaxCart} }

Contexts == {"product", "cart", "checkout", "post_purchase", "home"}

\* load_products() of upsell_engine_v2.py: the "products" list, [] when there is none
load_products_v5 == products_v5

\* the ids of a catalog, an id that is in no catalog, and 0 for no id
ProductIds == 0..(Max2(MaxProductsV5, 4) + 1)

InitUpsell ==
    /\ products = <<>>
    /\ catalog_exists = FALSE
    /\ search_index = NoIndex
    /\ products_v5 \in UpsellCatalogs
    /\ cart \in CartsOf(products_v5)
    /\ pc = "idle"
    /\ op = NoOp
    /\ ret = NoRet
    /\ EnginesIdle

Returned(call, value) ==
    /\ pc = "idle"
    /\ pc' = "done"
    /\ op' = call
    /\ ret' = value
    /\ UNCHANGED <<products, catalog_exists, search_index, products_v5, cart, engine_vars>>

CallUpsellsForProduct(product_id, limit) ==
    Returned([name |-> "get_upsells_for_product", product_id |-> product_id, limit |-> limit],
             get_upsells_for_product(load_products_v5, product_id, limit))

CallCartUpsells(limit) ==
    Returned([name |-> "get_cart_upsells", limit |-> limit],
             get_cart_upsells(load_products_v5, cart, limit))

CallCheckoutUpsells(limit) ==
    Returned([name |-> "get_checkout_upsells", limit |-> limit],
             get_checkout_upsells(load_products_v5, cart, limit))

\* the order is the cart that was bought
CallPostPurchaseUpsells(limit) ==
    Returned([name |-> "get_post_purchase_upsells", limit |-> limit],
             get_post_purchase_upsells(load_products_v5, cart, limit))

CallPopularProducts(limit) ==
    Returned([name |-> "get_popular_products", limit |-> limit],
             get_popular_products(load_products_v5, limit))

CallAiRecommendations(product_id, context, limit) ==
    Returned([name |-> "get_ai_recommendations", product_id |-> product_id,
              context |-> context, limit |-> limit],
             get_ai_recommendations(load_products_v5, product_id, context, limit))

NextUpsell ==
    \/ \E product_id \in ProductIds \ {0}, limit \in UpsellLimits :
          CallUpsellsForProduct(product_id, limit)
    \/ \E limit \in UpsellLimits : CallCartUpsells(limit)
    \/ \E limit \in UpsellLimits : CallCheckoutUpsells(limit)
    \/ \E limit \in UpsellLimits : CallPostPurchaseUpsells(limit)
    \/ \E limit \in UpsellLimits : CallPopularProducts(limit)
    \/ \E product_id \in ProductIds, context \in Contexts, limit \in UpsellLimits :
          CallAiRecommendations(product_id, context, limit)
    \/ Return

SpecUpsell == InitUpsell /\ [][NextUpsell]_vars

(***************************************************************************)
(* The storefront: search and recommendations over their two catalogs      *)
(***************************************************************************)
InitShop ==
    /\ catalog_exists = TRUE
    /\ products = Scenario1Catalog
    /\ search_index = NoIndex
    /\ products_v5 \in {Scenario3InStock, PriceLadderCatalog}
    /\ cart \in CartsOf(products_v5)
    /\ pc = "idle"
    /\ op = NoOp
    /\ ret = NoRet
    /\ EnginesIdle

NextShop == NextSearch \/ NextUpsell

SpecShop == InitShop /\ [][NextShop]_vars

(***************************************************************************)
(* normalize_text on its own                                               *)
(***************************************************************************)
MaxText == 3

\* None, and the texts of at most MaxText characters over a lowercase letter,
\* an uppercase letter, a digit, the underscore, a punctuation mark and the space
NormalizeInputs ==
    {[none |-> TRUE]} \cup
    {[text |-> t] : t \in UNION {[1..n -> {"a", "B", "1", "_", "-", " "}] : n \in 0..MaxText}}

InitNormalize ==
    /\ products = <<>>
    /\ catalog_exists = FALSE
    /\ search_index = NoIndex
    /\ products_v5 = <<>>
    /\ cart = <<>>
    /\ pc = "idle"
    /\ op = NoOp
    /\ ret = NoRet
    /\ EnginesIdle

\* normalize_text(text); None is falsy and gives "" as the empty text does
CallNormalizeText(input) ==
    /\ pc' = "done"
    /\ op' = [name |-> "normalize_text", input |-> input]
    /\ ret' = [text |-> IF Has(input, "none") THEN <<>> ELSE normalize_text(input.text)]
    /\ UNCHANGED <<products, catalog_exists, search_index, products_v5, cart, engine_vars>>

NextNormalize == \E input \in NormalizeInputs : CallNormalizeText(input)

SpecNormalize == InitNormalize /\ [][NextNormalize]_vars

(***************************************************************************)
(* The scheduler (engine_scheduler.py): runs of run_hourly_tasks and       *)
(* run_daily_tasks in threads or processes of their own, interleaved line  *)
(* by line.  The lock file holds the time it was written; `writer' is the  *)
(* run that wrote it last and `inode' the run that created the file (0: a  *)
(* run that is gone), neither of which the code stores.                    *)
(***************************************************************************)
MaxRuns == 3

MaxClock == 2

\* timedelta(hours=1): a lock of this age is no longer honoured
LockStaleAfter == 1

RunIds == 1..MaxRuns

\* at the start there may be a lock file a run that was killed has left behind
InitScheduler ==
    /\ ShopIdle
    /\ pc = "idle"
    /\ op = NoOp
    /\ ret = NoRet
    /\ lock_file \in {NoLockFile,
                     [exists |-> TRUE, stamp |-> <<0>>, inode |-> 0, writer |-> 0]}
    /\ clock = 0
    /\ runs = [r \in RunIds |-> [pc |-> "idle", kind |-> "none", saw |-> "nothing", fd |-> 0]]
    /\ abandoned_carts = <<>>
    /\ recovery_log = <<>>
    /\ coupons = <<>>
    /\ usage_log = <<>>
    /\ accounts = <<>>
    /\ transactions = <<>>

\* what a step of the scheduler leaves alone besides the index
SchedulerFrame ==
    UNCHANGED <<products, catalog_exists, products_v5, cart, pc, op, ret,
                abandoned_carts, recovery_log, coupons, usage_log, accounts, transactions>>

\* run_hourly_tasks() or run_daily_tasks() is entered and logs its banner
StartRun(r, kind) ==
    /\ runs[r].pc = "idle"
    /\ runs' = [runs EXCEPT ![r].pc = "acquire", ![r].kind = kind]
    /\ UNCHANGED <<lock_file, clock, search_index>>
    /\ SchedulerFrame

\* acquire_lock: if os.path.exists(LOCK_FILE)
CheckLock(r) ==
    /\ runs[r].pc = "acquire"
    /\ runs' = IF lock_file.exists
               THEN [runs EXCEPT ![r].pc = "read"]
               ELSE [runs EXCEPT ![r].pc = "create", ![r].saw = "absent"]
    /\ UNCHANGED <<lock_file, clock, search_index>>
    /\ SchedulerFrame

\* acquire_lock: the file is opened and read and its time compared; a file
\* that is gone by now or holds no time raises, and except: pass goes on
ReadLock(r) ==
    /\ runs[r].pc = "read"
    /\ runs' =
         IF ~lock_file.exists \/ lock_file.stamp = <<>>
         THEN [runs EXCEPT ![r].pc = "create", ![r].saw = "unreadable"]
         ELSE IF clock - lock_file.stamp[1] < LockStaleAfter
              THEN [runs EXCEPT ![r].pc = "refused", ![r].saw = "fresh"]
              ELSE [runs EXCEPT ![r].pc = "create", ![r].saw = "stale"]
    /\ UNCHANGED <<lock_file, clock, search_index>>
    /\ SchedulerFrame

\* acquire_lock: open(LOCK_FILE, "w") creates the file or empties the one
\* that is there
CreateLock(r) ==
    /\ runs[r].pc = "create"
    /\ LET inode == IF lock_file.exists THEN lock_file.inode ELSE r IN
       /\ lock_file' = [exists |-> TRUE, stamp |-> <<>>, inode |-> inode, writer |-> r]
       /\ runs' = [runs EXCEPT ![r].pc = "write", ![r].fd = inode]
    /\ UNCHANGED <<clock, search_index>>
    /\ SchedulerFrame

\* acquire_lock: f.write(datetime.now().isoformat()), into the file that was
\* opened, which another run may have removed since; return True
WriteLock(r) ==
    /\ runs[r].pc = "write"
    /\ lock_file' = IF lock_file.exists /\ lock_file.inode = runs[r].fd
                    THEN [lock_file EXCEPT !.stamp = <<clock>>, !.writer = r]
                    ELSE lock_file
    /\ runs' = [runs EXCEPT ![r].pc = "tasks"]
    /\ UNCHANGED <<clock, search_index>>
    /\ SchedulerFrame

\* the tasks of the run, each of which catches its own exceptions; both kinds
\* of run end with task_rebuild_search_index (the homepage, category and log
\* files the other tasks write are read by nothing here)
RunTasks(r) ==
    /\ runs[r].pc = "tasks"
    /\ search_index' = write_index(search_index, build_search_index(load_products))
    /\ runs' = [runs EXCEPT ![r].pc = "release"]
    /\ UNCHANGED <<lock_file, clock>>
    /\ SchedulerFrame

\* release_lock: if os.path.exists(LOCK_FILE)
ReleaseCheck(r) ==
    /\ runs[r].pc = "release"
    /\ runs' = [runs EXCEPT ![r].pc = IF lock_file.exists THEN "remove" ELSE "finished"]
    /\ UNCHANGED <<lock_file, clock, search_index>>
    /\ SchedulerFrame

\* release_lock: os.remove(LOCK_FILE), which raises when the file is gone
RemoveLock(r) ==
    /\ runs[r].pc = "remove"
    /\ lock_file' = NoLockFile
    /\ runs' = [runs EXCEPT ![r].pc = IF lock_file.exists THEN "finished" ELSE "raised"]
    /\ UNCHANGED <<clock, search_index>>
    /\ SchedulerFrame

\* an hour passes
Tick ==
    /\ clock < MaxClock
    /\ clock' = clock + 1
    /\ UNCHANGED <<lock_file, runs, search_index>>
    /\ SchedulerFrame

NextScheduler ==
    \/ \E r \in RunIds, kind \in {"hourly", "daily"} : StartRun(r, kind)
    \/ \E r \in RunIds : CheckLock(r)
    \/ \E r \in RunIds : ReadLock(r)
    \/ \E r \in RunIds : CreateLock(r)
    \/ \E r \in RunIds : WriteLock(r)
    \/ \E r \in RunIds : RunTasks(r)
    \/ \E r \in RunIds : ReleaseCheck(r)
    \/ \E r \in RunIds : RemoveLock(r)
    \/ Tick

SpecScheduler == InitScheduler /\ [][NextScheduler]_vars

(***************************************************************************)
(* Abandoned cart recovery (engines/abandoned_cart_v5.py).  A cart record  *)
(* keeps the fields the recovery reads; its id cart_<user>_<timestamp> is  *)
(* the pair <<user_id, created_at>>.                                       *)
(***************************************************************************)
RECOVERY_STAGES ==
    << [hours |-> 1, template |-> "reminder_1"],
       [hours |-> 24, template |-> "reminder_2"],
       [hours |-> 72, template |-> "final_offer"] >>

\* the active carts whose next stage is due, each with that stage
get_carts_for_recovery(carts, now) ==
    LET IsDue(c) ==
            /\ c.status = "active"
            /\ c.recovery_stage < Len(RECOVERY_STAGES)
            /\ now - c.created_at >= RECOVERY_STAGES[c.recovery_stage + 1].hours
        due == SelectSeq(carts, IsDue)
    IN  [i \in 1..Len(due) |->
            [cart |-> due[i], stage |-> RECOVERY_STAGES[due[i].recovery_stage + 1]]]

\* send_recovery_email(cart, stage) on the stored carts and log, item being
\* the cart; response is
\* what requests.post did: "200", "500", or "raised"
send_recovery_email(carts, log, item, stage, response) ==
    IF item.email = "" \/ response = "raised"
    THEN [carts |-> carts, log |-> log]
    ELSE [carts |-> [i \in 1..Len(carts) |->
                        IF carts[i].id = item.id
                        THEN [carts[i] EXCEPT !.recovery_stage = @ + 1]
                        ELSE carts[i]],
          log |-> Append(log, [cart_id |-> item.id, email |-> item.email,
                               stage |-> stage.template,
                               success |-> response = "200"])]

\* the loop of process_recovery_emails over the carts it found
RECURSIVE SendAll(_, _, _, _)
SendAll(items, carts, log, responses) ==
    IF items = <<>> THEN [carts |-> carts, log |-> log]
    ELSE LET sent == send_recovery_email(carts, log, Head(items).cart, Head(items).stage,
                                         responses[Head(items).cart.user_id])
         IN  SendAll(Tail(items), sent.carts, sent.log, responses)

CartUsers == {"u1", "u2"}

\* carts are tracked in the first hours only; after that they are processed
MaxTrackHour == 1

InitCarts ==
    /\ ShopIdle
    /\ pc = "idle"
    /\ op = NoOp
    /\ ret = NoRet
    /\ EnginesIdle

CartFrame ==
    UNCHANGED <<shop_vars, pc, ret, lock_file, runs, coupons, usage_log, accounts,
                transactions>>

\* track_cart(user_id, email, cart_items, cart_total)
CallTrackCart(user_id, email) ==
    LET IsOther(c) == c.user_id # user_id IN
    /\ clock <= MaxTrackHour
    /\ abandoned_carts' =
           Append(SelectSeq(abandoned_carts, IsOther),
                  [id |-> <<user_id, clock>>, user_id |-> user_id, email |-> email,
                   created_at |-> clock, status |-> "active", recovery_stage |-> 0,
                   recovered |-> FALSE])
    /\ op' = [name |-> "track_cart"]
    /\ UNCHANGED <<recovery_log, clock>>
    /\ CartFrame

\* mark_cart_converted(user_id)
CallMarkCartConverted(user_id) ==
    /\ abandoned_carts' =
           [i \in 1..Len(abandoned_carts) |->
               LET c == abandoned_carts[i] IN
               IF c.user_id = user_id /\ c.status = "active"
               THEN [c EXCEPT !.status = "converted", !.recovered = c.recovery_stage > 0]
               ELSE c]
    /\ op' = [name |-> "mark_cart_converted"]
    /\ UNCHANGED <<recovery_log, clock>>
    /\ CartFrame

\* process_recovery_emails(), the email API answering each post as responses says
CallProcessRecoveryEmails(responses) ==
    LET done == SendAll(get_carts_for_recovery(abandoned_carts, clock),
                        abandoned_carts, recovery_log, responses) IN
    /\ abandoned_carts' = done.carts
    /\ recovery_log' = done.log
    /\ op' = [name |-> "process_recovery_emails"]
    /\ UNCHANGED clock
    /\ CartFrame

\* time passes, to the hour at which a stage of a cart of hour 0 falls due (a
\* cart of hour 1 is then one hour short of it)
Advance(hour) ==
    /\ hour > clock
    /\ clock' = hour
    /\ op' = NoOp
    /\ UNCHANGED <<abandoned_carts, recovery_log>>
    /\ CartFrame

NextCarts ==
    \/ \E user_id \in CartUsers, email \in {"", "a@x"} : CallTrackCart(user_id, email)
    \/ \E user_id \in CartUsers : CallMarkCartConverted(user_id)
    \/ \E responses \in [CartUsers -> {"200", "500", "raised"}] :
          CallProcessRecoveryEmails(responses)
    \/ \E hour \in {1, 24, 72} : Advance(hour)

SpecCarts == InitCarts /\ [][NextCarts]_vars

(***************************************************************************)
(* Coupons (engines/discount_engine_v5.py).  Amounts are whole dollars;    *)
(* max_uses 0 stands for None, which is as falsy as 0; codes are given in  *)
(* upper case, and no coupon has an expiry date.                           *)
(***************************************************************************)
MaxApplies == 3

\* validate_coupon(code, order_total, is_first_order=...) on the stored coupons
validate_coupon(stored, code, order_total, is_first_order) ==
    LET found == {i \in 1..Len(stored) : stored[i].code = code}
        coupon == stored[CHOOSE i \in found : \A j \in found : i <= j]
        \* calculate_discount: the percentage or the fixed amount, at most
        \* max_discount_percent = 50 percent of the order
        discount == Min2(IF coupon.type = "percentage"
                         THEN (order_total * coupon.value) \div 100
                         ELSE IF coupon.type = "fixed"
                              THEN Min2(coupon.value, order_total)
                              ELSE 0,
                         (order_total * 50) \div 100)
    IN  IF found = {} THEN [valid |-> FALSE, error |-> "Invalid coupon code"]
        ELSE IF ~coupon.active
             THEN [valid |-> FALSE, error |-> "This coupon is no longer active"]
        ELSE IF coupon.max_uses # 0 /\ coupon.uses >= coupon.max_uses
             THEN [valid |-> FALSE, error |-> "This coupon has reached its usage limit"]
        ELSE IF order_total < coupon.min_order
             THEN [valid |-> FALSE, error |-> "Minimum order required"]
        ELSE IF coupon.first_order_only /\ ~is_first_order
             THEN [valid |-> FALSE, error |-> "This coupon is for first orders only"]
        ELSE [valid |-> TRUE, coupon |-> coupon, discount |-> discount,
              new_total |-> Max2(0, order_total - discount)]

\* what load_discounts stores when there is no file: WELCOME15 and FREESHIP50
InitCoupons ==
    /\ ShopIdle
    /\ pc = "idle"
    /\ op = NoOp
    /\ ret = NoRet
    /\ lock_file = NoLockFile
    /\ clock = 0
    /\ runs = <<>>
    /\ abandoned_carts = <<>>
    /\ recovery_log = <<>>
    /\ coupons = << [code |-> "WELCOME15", type |-> "percentage", value |-> 15,
                     min_order |-> 0, max_uses |-> 0, uses |-> 0,
                     first_order_only |-> TRUE, active |-> TRUE],
                    [code |-> "FREESHIP50", type |-> "shipping", value |-> 0,
                     min_order |-> 50, max_uses |-> 0, uses |-> 0,
                     first_order_only |-> FALSE, active |-> TRUE] >>
    /\ usage_log = <<>>
    /\ accounts = <<>>
    /\ transactions = <<>>

CouponFrame ==
    UNCHANGED <<shop_vars, lock_file, clock, runs, abandoned_carts, recovery_log,
                accounts, transactions>>

\* create_coupon(code, "percentage", 10, max_uses=max_uses)
CallCreateCoupon(code, max_uses) ==
    LET coupon == [code |-> code, type |-> "percentage", value |-> 10, min_order |-> 0,
                   max_uses |-> max_uses, uses |-> 0, first_order_only |-> FALSE,
                   active |-> TRUE]
        exists == \E i \in 1..Len(coupons) : coupons[i].code = code
    IN  /\ pc' = "done"
        /\ op' = [name |-> "create_coupon", code |-> code, max_uses |-> max_uses]
        /\ coupons' = IF exists THEN coupons ELSE Append(coupons, coupon)
        /\ ret' = IF exists THEN [success |-> FALSE, error |-> "Code already exists"]
                  ELSE [success |-> TRUE, coupon |-> coupon]
        /\ UNCHANGED usage_log
        /\ CouponFrame

CallValidateCoupon(code, order_total, is_first_order) ==
    /\ pc' = "done"
    /\ op' = [name |-> "validate_coupon", code |-> code, order_total |-> order_total,
              is_first_order |-> is_first_order]
    /\ ret' = validate_coupon(coupons, code, order_total, is_first_order)
    /\ UNCHANGED <<coupons, usage_log>>
    /\ CouponFrame

\* apply_coupon(code, order_id, user_id, discount_amount): the first coupon of
\* that code is used once more, and the use is logged whether one was found or not
CallApplyCoupon(code) ==
    LET found == {i \in 1..Len(coupons) : coupons[i].code = code} IN
    /\ Len(usage_log) < MaxApplies
    /\ pc' = "done"
    /\ op' = [name |-> "apply_coupon", code |-> code]
    /\ coupons' = [i \in 1..Len(coupons) |->
                      IF i \in found /\ \A j \in found : i <= j
                      THEN [coupons[i] EXCEPT !.uses = @ + 1]
                      ELSE coupons[i]]
    /\ usage_log' = Append(usage_log, [code |-> code])
    /\ ret' = [success |-> TRUE]
    /\ CouponFrame

NextCoupons ==
    \/ \E code \in {"SAVE10", "WELCOME15"}, max_uses \in 0..2 :
          CallCreateCoupon(code, max_uses)
    \/ \E code \in {"SAVE10", "WELCOME15", "NOPE"}, order_total \in {0, 100},
          is_first_order \in BOOLEAN :
          CallValidateCoupon(code, order_total, is_first_order)
    \/ \E code \in {"SAVE10", "WELCOME15", "NOPE"} : CallApplyCoupon(code)

SpecCoupons == InitCoupons /\ [][NextCoupons]_vars

(***************************************************************************)
(* Loyalty rewards (engines/loyalty_rewards_v5.py).  Amounts are whole     *)
(* dollars; a multiplier is given in quarters (5 for 1.25); a referral     *)
(* code PAWSY<user id> is the pair <<"PAWSY", user_id>>, the user ids      *)
(* being upper case and no longer than 6 characters.                       *)
(***************************************************************************)
MaxTransactions == 4

TIERS ==
    << [name |-> "bronze", min_points |-> 0, multiplier |-> 4],
       [name |-> "silver", min_points |-> 500, multiplier |-> 5],
       [name |-> "gold", min_points |-> 1500, multiplier |-> 6],
       [name |-> "platinum", min_points |-> 5000, multiplier |-> 8] >>

\* the last tier of TIERS whose min_points the points reach
get_tier(points) ==
    LET reached == {i \in 1..Len(TIERS) : points >= TIERS[i].min_points}
    IN  IF reached = {} THEN "bronze"
        ELSE TIERS[CHOOSE i \in reached : \A j \in reached : j <= i].name

InitLoyalty ==
    /\ ShopIdle
    /\ pc = "idle"
    /\ op = NoOp
    /\ ret = NoRet
    /\ EnginesIdle

LoyaltyFrame ==
    UNCHANGED <<shop_vars, lock_file, clock, runs, abandoned_carts, recovery_log,
                coupons, usage_log>>

\* create_account(user_id, email): POINTS_RULES["signup"] = 100 welcome
\* points, and log_transaction
CallCreateAccount(user_id) ==
    LET account == [user_id |-> user_id, points |-> 100, lifetime_points |-> 100,
                    tier |-> "bronze", referral_code |-> <<"PAWSY", user_id>>,
                    referred_by |-> <<>>, redeemed_rewards |-> <<>>]
    IN  /\ pc' = "done"
        /\ op' = [name |-> "create_account", user_id |-> user_id]
        /\ IF user_id \in DOMAIN accounts
           THEN /\ ret' = [success |-> FALSE, error |-> "Account already exists"]
                /\ UNCHANGED <<accounts, transactions>>
           ELSE /\ Len(transactions) < MaxTransactions
                /\ accounts' = [u \in DOMAIN accounts \cup {user_id} |->
                                   IF u = user_id THEN account ELSE accounts[u]]
                /\ transactions' =
                       Append(transactions, [user_id |-> user_id, type |-> "earn",
                                             points |-> 100, reason |-> "signup_bonus"])
                /\ ret' = [success |-> TRUE, account |-> account]
        /\ LoyaltyFrame

\* earn_points(user_id, amount, reason) with amount >= 0; POINTS_RULES gives
\* 1 point per dollar of a purchase and 50 for a review
CallEarnPoints(user_id, amount, reason) ==
    LET account == accounts[user_id]
        tier == get_tier(account.lifetime_points)
        multiplier == TIERS[CHOOSE i \in 1..Len(TIERS) : TIERS[i].name = tier].multiplier
        base_points == amount * (IF reason = "review" THEN 50 ELSE 1)
        bonus_points == (base_points * (multiplier - 4)) \div 4
        total_points == base_points + bonus_points
        earned == [account EXCEPT !.points = @ + total_points,
                                  !.lifetime_points = @ + total_points,
                                  !.tier = get_tier(account.lifetime_points + total_points)]
    IN  /\ pc' = "done"
        /\ op' = [name |-> "earn_points", user_id |-> user_id, amount |-> amount,
                  reason |-> reason]
        /\ IF user_id \notin DOMAIN accounts
           THEN /\ ret' = [success |-> FALSE, error |-> "Account not found"]
                /\ UNCHANGED <<accounts, transactions>>
           ELSE /\ Len(transactions) < MaxTransactions
                /\ accounts' = [accounts EXCEPT ![user_id] = earned]
                /\ transactions' =
                       Append(transactions, [user_id |-> user_id, type |-> "earn",
                                             points |-> total_points, reason |-> reason])
                /\ ret' = [success |-> TRUE, points_earned |-> total_points,
                           new_balance |-> earned.points, tier |-> earned.tier]
        /\ LoyaltyFrame

\* redeem_reward without the test for enough points
CallRedeemReward_unchecked(user_id, reward_id) ==
    LET rewards == [r1 |-> 500, r2 |-> 900, r3 |-> 2000, r4 |-> 300, r5 |-> 1500, r6 |-> 750]
        account == accounts[user_id]
    IN  /\ pc' = "done"
        /\ op' = [name |-> "redeem_reward", user_id |-> user_id, reward_id |-> reward_id]
        /\ IF user_id \notin DOMAIN accounts
           THEN /\ ret' = [success |-> FALSE, error |-> "Account not found"]
                /\ UNCHANGED <<accounts, transactions>>
           ELSE IF reward_id \notin DOMAIN rewards
           THEN /\ ret' = [success |-> FALSE, error |-> "Reward not found"]
                /\ UNCHANGED <<accounts, transactions>>
           ELSE /\ Len(transactions) < MaxTransactions
                /\ accounts' = [accounts EXCEPT
                                   ![user_id].points = @ - rewards[reward_id],
                                   ![user_id].redeemed_rewards = Append(@, reward_id)]
                /\ transactions' =
                       Append(transactions, [user_id |-> user_id, type |-> "redeem",
                                             points |-> 0 - rewards[reward_id],
                                             reason |-> <<"reward_", reward_id>>])
                /\ ret' = [success |-> TRUE,
                           new_balance |-> account.points - rewards[reward_id]]
        /\ LoyaltyFrame

\* redeem_reward(user_id, reward_id), the rewards being those load_rewards_catalog
\* stores when there is no file
CallRedeemReward(user_id, reward_id) ==
    LET rewards == [r1 |-> 500, r2 |-> 900, r3 |-> 2000, r4 |-> 300, r5 |-> 1500, r6 |-> 750]
        account == accounts[user_id]
    IN  /\ pc' = "done"
        /\ op' = [name |-> "redeem_reward", user_id |-> user_id, reward_id |-> reward_id]
        /\ IF user_id \notin DOMAIN accounts
           THEN /\ ret' = [success |-> FALSE, error |-> "Account not found"]
                /\ UNCHANGED <<accounts, transactions>>
           ELSE IF reward_id \notin DOMAIN rewards
           THEN /\ ret' = [success |-> FALSE, error |-> "Reward not found"]
                /\ UNCHANGED <<accounts, transactions>>
           ELSE IF account.points < rewards[reward_id]
           THEN /\ ret' = [success |-> FALSE, error |-> "Not enough points",
                           points_needed |-> rewards[reward_id] - account.points]
                /\ UNCHANGED <<accounts, transactions>>
           ELSE /\ Len(transactions) < MaxTransactions
                /\ accounts' = [accounts EXCEPT
                                   ![user_id].points = @ - rewards[reward_id],
                                   ![user_id].redeemed_rewards = Append(@, reward_id)]
                /\ transactions' =
                       Append(transactions, [user_id |-> user_id, type |-> "redeem",
                                             points |-> 0 - rewards[reward_id],
                                             reason |-> <<"reward_", reward_id>>])
                /\ ret' = [success |-> TRUE,
                           new_balance |-> account.points - rewards[reward_id]]
        /\ LoyaltyFrame

\* apply_referral(user_id, referral_code): POINTS_RULES["referral"] = 200 points
\* for the account and for the first other account that has the code
CallApplyReferral(user_id, referral_code) ==
    LET referrers == {u \in DOMAIN accounts \ {user_id} :
                         accounts[u].referral_code = referral_code}
        referrer_id == CHOOSE u \in referrers : TRUE
    IN  /\ pc' = "done"
        /\ op' = [name |-> "apply_referral", user_id |-> user_id,
                  referral_code |-> referral_code]
        /\ IF user_id \notin DOMAIN accounts
           THEN /\ ret' = [success |-> FALSE, error |-> "Account not found"]
                /\ UNCHANGED <<accounts, transactions>>
           ELSE IF accounts[user_id].referred_by # <<>>
           THEN /\ ret' = [success |-> FALSE, error |-> "Referral already applied"]
                /\ UNCHANGED <<accounts, transactions>>
           ELSE IF referrers = {}
           THEN /\ ret' = [success |-> FALSE, error |-> "Invalid referral code"]
                /\ UNCHANGED <<accounts, transactions>>
           ELSE /\ Len(transactions) + 1 < MaxTransactions
                /\ accounts' = [accounts EXCEPT
                                   ![user_id].referred_by = referral_code,
                                   ![user_id].points = @ + 200,
                                   ![user_id].lifetime_points = @ + 200,
                                   ![referrer_id].points = @ + 200,
                                   ![referrer_id].lifetime_points = @ + 200]
                /\ transactions' =
                       transactions \o
                       << [user_id |-> user_id, type |-> "earn", points |-> 200,
                           reason |-> "referral_bonus"],
                          [user_id |-> referrer_id, type |-> "earn", points |-> 200,
                           reason |-> "referral_reward"] >>
                /\ ret' = [success |-> TRUE, points_earned |-> 200,
                           new_balance |-> accounts[user_id].points + 200]
        /\ LoyaltyFrame

NextLoyalty ==
    \/ \E user_id \in {"ANN", "BOB"} : CallCreateAccount(user_id)
    \/ \E user_id \in {"ANN", "BOB"},
          earning \in {<<0, "purchase">>, <<400, "purchase">>, <<3000, "purchase">>,
                       <<1, "review">>} :
          CallEarnPoints(user_id, earning[1], earning[2])
    \/ \E user_id \in {"ANN", "BOB"}, reward_id \in {"r1", "r4", "r9"} :
          CallRedeemReward(user_id, reward_id)
    \/ \E user_id \in {"ANN", "BOB"},
          referral_code \in {<<"PAWSY", "ANN">>, <<"PAWSY", "BOB">>, <<"PAWSY", "EVE">>} :
          CallApplyReferral(user_id, referral_code)

SpecLoyalty == InitLoyalty /\ [][NextLoyalty]_vars

(***************************************************************************)
(* Properties                                                              *)
(***************************************************************************)
Ids(prods) == [i \in 1..Len(prods) |-> prods[i].id]

IdSet(prods) == {prods[i].id : i \in 1..Len(prods)}

\* position of an id in a list of products, 0 when it is not there
IndexOfId(prods, id) ==
    IF id \in IdSet(prods) THEN CHOOSE i \in 1..Len(prods) : prods[i].id = id ELSE 0

\* a call of search_products has returned a result record
Searched == pc = "done" /\ op.name = "search_products" /\ Has(ret, "results")

\* the relevance score of a product for the query of the call
ScoreForQuery(p) == calculate_relevance(p, op.query)

\* a recommendation call has returned
Recommended ==
    /\ pc = "done"
    /\ op.name \in {"get_upsells_for_product", "get_cart_upsells", "get_checkout_upsells",
                    "get_post_purchase_upsells", "get_popular_products",
                    "get_ai_recommendations"}

\* the call is a product-context recommendation for seed op.product_id
ProductContext ==
    /\ pc = "done"
    /\ \/ op.name = "get_upsells_for_product"
       \/ op.name = "get_ai_recommendations" /\ op.context = "product" /\ op.product_id # 0

\* the call is a cart-context recommendation for the shopper's cart
CartContext ==
    /\ pc = "done"
    /\ \/ op.name = "get_cart_upsells"
       \/ op.name = "get_ai_recommendations" /\ op.context = "cart"

\* C1: no recommendation call returns the seed product, a product with
\* stock <= 0 or an unpublished product.
C1_Exclusion ==
    Recommended =>
        \A i \in 1..Len(ret) :
            /\ ProductContext => ret[i].id # op.product_id
            /\ Get(ret[i], "stock", 0) > 0
            /\ Get(ret[i], "published", TRUE)

\* C2: every product search_products returns scores at least 10 for the
\* query, and total counts no product that scores below 10.
C2_ResultsReachMinScore ==
    Searched =>
        /\ \A i \in 1..Len(ret.results) : RGeq(ScoreForQuery(ret.results[i]), RInt(10))
        /\ Len(ret.results) <= ret.total
        /\ ret.total <= Cardinality({i \in 1..Len(products) :
                                        RGeq(ScoreForQuery(products[i]), RInt(10))})

\* a search without filters returned something and left out a product that
\* scores below 10
C2_Witness ==
    /\ Searched
    /\ op.filters = NoFilters
    /\ ret.results # <<>>
    /\ \E i \in 1..Len(products) : RLt(ScoreForQuery(products[i]), RInt(10))

\* C3: an empty or whitespace-only query returns no results and total 0.
C3_EmptyQueryMatchesNothing ==
    (Searched /\ normalize_text(op.query) = <<>>) =>
        (ret.results = <<>> /\ ret.total = 0)

\* C7: under sort "relevance" the results are in non-increasing order of
\* score and results of equal score are in catalog order.
C7_RelevanceOrderStable ==
    (Searched /\ op.sort_by = "relevance") =>
        \A i, j \in 1..Len(ret.results) :
            i < j =>
                /\ RGeq(ScoreForQuery(ret.results[i]), ScoreForQuery(ret.results[j]))
                /\ ScoreForQuery(ret.results[i]) = ScoreForQuery(ret.results[j])
                   => IndexOfId(products, ret.results[i].id) < IndexOfId(products, ret.results[j].id)

\* a relevance search returned two products of equal score, the first with
\* the larger id
C7_Witness ==
    /\ Searched
    /\ op.sort_by = "relevance"
    /\ Len(ret.results) >= 2
    /\ ScoreForQuery(ret.results[1]) = ScoreForQuery(ret.results[2])
    /\ ret.results[1].id > ret.results[2].id

\* search_products("dog toy") with the default arguments on the catalog of
\* scenario 1
Scenario1Search ==
    /\ products = Scenario1Catalog
    /\ pc = "done"
    /\ op = [name |-> "search_products", query |-> <<"d","o","g"," ","t","o","y">>,
             filters |-> NoFilters, sort_by |-> "relevance", limit |-> DefaultSearchLimit]

\* C8 as stated: the search returns exactly product 1, with total 1.
C8_Scenario1OnlyProduct1 ==
    Scenario1Search => (Ids(ret.results) = <<1>> /\ ret.total = 1)

\* C8 as amended: the search returns product 1 then product 2, with total 2;
\* product 2 reaches the minimum score through its tag "toy".
C8_Scenario1BothProducts ==
    Scenario1Search =>
        /\ Ids(ret.results) = <<1, 2>>
        /\ ret.total = 2
        /\ RGt(ScoreForQuery(products[1]), ScoreForQuery(products[2]))

C8_Witness == Scenario1Search /\ Len(ret.results) = 2

\* search_products("toy", filters={animal: "cat"}) on the catalog of scenario 1
Scenario2Search ==
    /\ products = Scenario1Catalog
    /\ pc = "done"
    /\ op = [name |-> "search_products", query |-> <<"t","o","y">>,
             filters |-> [animal |-> <<"c","a","t">>], sort_by |-> "relevance",
             limit |-> DefaultSearchLimit]

\* C9 as stated: the filtered search returns exactly product 2.
C9_Scenario2OnlyProduct2 ==
    Scenario2Search => Ids(ret.results) = <<2>>

\* C9 as amended: the filtered search returns nothing, total 0; the animal
\* filter compares the animal field, which neither record has.
C9_Scenario2NoProduct ==
    Scenario2Search => (ret.results = <<>> /\ ret.total = 0)

C9_Witness ==
    /\ Scenario2Search
    /\ ret.total = 0
    /\ \A i \in 1..2 : RGeq(ScoreForQuery(products[i]), RInt(10))

\* rating*20 + reviews_count/10, +50 for the badge "Bestseller"
PopularityOf(p) ==
    Rat(Rating(p) * 20 + Get(p, "reviews_count", 0)
        + (IF Get(p, "badge", None) = "Bestseller" THEN 500 ELSE 0), 10)

PublishedProducts ==
    {products_v5[k] : k \in {i \in 1..Len(products_v5) : Get(products_v5[i], "published", TRUE)}}

\* r is the published products in non-increasing order of popularity, cut to limit
IsPopularityRanking(r, limit) ==
    /\ Len(r) = Min2(limit, Cardinality(PublishedProducts))
    /\ \A i \in 1..Len(r) : r[i] \in PublishedProducts
    /\ \A i, j \in 1..Len(r) :
          i < j => (r[i] # r[j] /\ RGeq(PopularityOf(r[i]), PopularityOf(r[j])))
    /\ \A p \in PublishedProducts \ Range(r) :
          \A i \in 1..Len(r) : RGeq(PopularityOf(r[i]), PopularityOf(p))

SeedMissing == ProductContext /\ op.product_id \notin IdSet(products_v5)

\* C4: a product-context recommendation for a seed id that is not in the
\* catalog is the popularity ranking of the published products, cut to limit.
C4_MissingSeedFallsBack ==
    SeedMissing => IsPopularityRanking(ret, op.limit)

\* a missing seed returned a Bestseller ahead of a product with a higher rating
C4_Witness ==
    /\ SeedMissing
    /\ Len(ret) >= 2
    /\ Get(ret[1], "badge", None) = "Bestseller"
    /\ Rating(ret[2]) > Rating(ret[1])

\* the candidates of a product-context call for a seed that is in the catalog
EligibleFor(product_id) ==
    {products_v5[k] : k \in {i \in 1..Len(products_v5) :
        /\ products_v5[i].id # product_id
        /\ Get(products_v5[i], "published", TRUE)
        /\ Get(products_v5[i], "stock", 0) > 0}}

SeedOf(product_id) == products_v5[IndexOfId(products_v5, product_id)]

\* C5: when the seed exists and no candidate scores above zero, the result is
\* the popularity fallback.
C5_ZeroScoresFallBack ==
    (/\ ProductContext
     /\ op.product_id \in IdSet(products_v5)
     /\ \A p \in EligibleFor(op.product_id) :
           ~RGt(UpsellScore(SeedOf(op.product_id), p), RInt(0)))
    => ret = get_popular_products(products_v5, op.limit)

\* C6: a cart-context recommendation returns no product that is in the cart.
C6_CartItemsExcluded ==
    CartContext => \A i \in 1..Len(ret) : ret[i].id \notin ItemIds(cart)

\* the product-context recommendation for seed 1 with the default limit
Scenario3Call == ProductContext /\ op.product_id = 1 /\ op.limit = DefaultUpsellLimit

DifferOnlyInPrice(p, q) ==
    /\ DOMAIN p = DOMAIN q
    /\ Has(p, "price")
    /\ \A k \in DOMAIN p \ {"id", "price"} : p[k] = q[k]

\* C11: for a seed price s > 0 and two candidates that differ only in price,
\* the one with the larger |price - s| / s never has the higher similarity
\* score, and has a strictly lower one while the other's price-proximity bonus
\* is above 0.
C11_PriceMonotone ==
    (ProductContext /\ op.product_id \in IdSet(products_v5)) =>
        LET seed == SeedOf(op.product_id)
            s == Get(seed, "price", 0)
        IN  s > 0 =>
              \A p, q \in EligibleFor(op.product_id) :
                  (DifferOnlyInPrice(p, q) /\ Abs(p.price - s) < Abs(q.price - s)) =>
                      /\ ~RGt(calculate_similarity_score(seed, q),
                              calculate_similarity_score(seed, p))
                      /\ RGt(price_score(s, p.price), RInt(0)) =>
                             RGt(calculate_similarity_score(seed, p),
                                 calculate_similarity_score(seed, q))

\* a call of search_products has returned, with a result or an error
SearchCalled == pc = "done" /\ op.name = "search_products"

\* the normalized query of the call is a substring of the normalized title of p
QueryInTitle(p) ==
    SubstringOf(normalize_text(op.query), normalize_text(Get(p, "title", <<>>)))

\* C12: for every product whose normalized title contains the normalized
\* query, the title contribution to calculate_relevance is 1.0 x 100 + 50 = 150.
C12_SubstringTitleScores150 ==
    SearchCalled =>
        \A i \in 1..Len(products) :
            QueryInTitle(products[i]) =>
                TitleContribution(normalize_text(op.query),
                                  normalize_text(Get(products[i], "title", <<>>))) = RInt(150)

\* C13: calculate_relevance is at least 0 for every product record, records
\* with missing fields included, and every query, the empty query included.
C13_RelevanceNonNegative ==
    SearchCalled =>
        \A i \in 1..Len(products) : RGeq(ScoreForQuery(products[i]), RInt(0))

\* a search has scored a record without tags, animal and images that has
\* nothing in common with the query: its score is exactly 0
C13_Witness ==
    /\ SearchCalled
    /\ normalize_text(op.query) # <<>>
    /\ \E i \in 1..Len(products) :
          /\ DOMAIN products[i] \cap {"tags", "animal", "images"} = {}
          /\ ScoreForQuery(products[i]) = RInt(0)

\* the sort key of the call is none of the four, or a price bound of its
\* filters is not a number
MalformedSearch ==
    \/ op.sort_by \notin {"relevance", "price_low", "price_high", "name"}
    \/ \E k \in {"price_min", "price_max"} : Has(op.filters, k) /\ FloatRaises(op.filters[k])

\* C14: a search with an unknown sort key or a non-numeric price bound ends
\* in an error reported to the caller and never returns a result list.
C14_MalformedSearchRejected ==
    (SearchCalled /\ MalformedSearch) => (Has(ret, "error") /\ ~Has(ret, "results"))

\* the filters of the call are numeric price bounds only
PriceFiltersOnly ==
    /\ DOMAIN op.filters \subseteq {"price_min", "price_max"}
    /\ \A k \in DOMAIN op.filters : Has(op.filters[k], "num")

\* a <= p <= b for the bounds that are given; a record without a price is
\* compared as 0 against price_min and as 999999 against price_max
InPriceRange(p) ==
    /\ Has(op.filters, "price_min") =>
          (IF Has(p, "price") THEN p.price ELSE 0) >= op.filters.price_min.num
    /\ Has(op.filters, "price_max") =>
          (IF Has(p, "price") THEN p.price ELSE MissingPriceMax) <= op.filters.price_max.num

\* the products of the catalog that reach the minimum score for the query
MatchedProducts ==
    {products[k] : k \in {i \in 1..Len(products) : RGeq(ScoreForQuery(products[i]), RInt(min_score))}}

\* C15: under price_min = a and price_max = b a matched product is kept if
\* and only if a <= p <= b for its price p, a present price 0 included; a
\* product without a price counts as 0 against a and as 999999 against b.
C15_PriceRangeInclusive ==
    (Searched /\ PriceFiltersOnly) =>
        /\ ret.total = Cardinality({p \in MatchedProducts : InPriceRange(p)})
        /\ \A i \in 1..Len(ret.results) : InPriceRange(ret.results[i])

\* the price of p, and missing when p has none
PriceOrMissing(p, missing) == IF Has(p, "price") THEN p.price ELSE missing

\* the results are in non-decreasing order of price, a missing price counted as 0
AscendingByPrice(r) ==
    \A i, j \in 1..Len(r) : i < j => PriceOrMissing(r[i], 0) <= PriceOrMissing(r[j], 0)

\* the results are in non-increasing order of price, a missing price counted
\* as missing
DescendingByPrice(r, missing) ==
    \A i, j \in 1..Len(r) :
        i < j => PriceOrMissing(r[i], missing) >= PriceOrMissing(r[j], missing)

\* C16 as stated: a product without a price is ordered as if its price were 0
\* under price_low and as if it were 999999 under price_high.
C16_MissingPriceFirstWhenDescending ==
    /\ (Searched /\ op.sort_by = "price_low") => AscendingByPrice(ret.results)
    /\ (Searched /\ op.sort_by = "price_high") => DescendingByPrice(ret.results, MissingPriceMax)

\* C16 as amended: a product without a price is ordered as if its price were
\* 0 under price_low and under price_high alike, so it comes last when the
\* order is descending.
C16_MissingPriceIsZero ==
    /\ (Searched /\ op.sort_by = "price_low") => AscendingByPrice(ret.results)
    /\ (Searched /\ op.sort_by = "price_high") => DescendingByPrice(ret.results, 0)

\* a price_high search returned a product without a price after a product
\* with one
C16_Witness ==
    /\ Searched
    /\ op.sort_by = "price_high"
    /\ \E i, j \in 1..Len(ret.results) :
          i < j /\ Get(ret.results[i], "price", 0) > 0 /\ ~Has(ret.results[j], "price")

\* the postings lists of an index, of every term, category and animal
PostingsLists(index) ==
    {index.terms[i].ids : i \in 1..Len(index.terms)}
        \cup {index.categories[i].ids : i \in 1..Len(index.categories)}
        \cup {index.animals[i].ids : i \in 1..Len(index.animals)}

\* the product ids a stored index holds
IndexedIds(index) ==
    UNION {Range(ids) : ids \in PostingsLists(index)}
        \cup {DecimalValue(k) : k \in DOMAIN index.products}

Postings(index) == <<index.terms, index.categories, index.animals>>

\* C17: the index a build stores holds ids of products of the current catalog
\* only, whatever index was stored before, and a build that follows a build
\* with no other call in between leaves terms, categories and animals as
\* they are.
C17_RebuildFromCatalogOnly ==
    [][ op'.name = "build_search_index" =>
            /\ IndexedIds(search_index') \subseteq IdSet(products')
            /\ Postings(ret') = Postings(search_index')
            /\ op.name = "build_search_index" =>
                   Postings(search_index') = Postings(search_index) ]_vars

\* a catalog has been stored since the index was built, and the index holds
\* the id of a product that is gone: the next build has to drop it
C17_Witness ==
    /\ op.name = "save_json_db"
    /\ search_index # NoIndex
    /\ ~(IndexedIds(search_index) \subseteq IdSet(products))

\* C18: in the index a build has stored no postings list, of a term, a
\* category or an animal, holds a product id twice.
C18_PostingsAreSets ==
    (pc = "done" /\ op.name = "build_search_index") =>
        \A ids \in PostingsLists(search_index) :
            \A i, j \in 1..Len(ids) : ids[i] = ids[j] => i = j

\* the entries of the index whose term starts with the normalized query
MatchingTerms(index, query) ==
    {i \in 1..Len(index.terms) : startswith(index.terms[i].key, normalize_text(query))}

\* r is the matching terms of the index with the lengths of their postings
\* lists, in non-increasing order of length, cut to limit
IsSuggestionList(r, index, query, limit) ==
    LET matching == MatchingTerms(index, query)
        Shown(i) == \E k \in 1..Len(r) : r[k].term = index.terms[i].key
    IN  /\ Len(r) = Min2(limit, Cardinality(matching))
        /\ \A k \in 1..Len(r) :
              \E i \in matching :
                  r[k] = [term |-> index.terms[i].key, count |-> Len(index.terms[i].ids)]
        /\ \A k, l \in 1..Len(r) :
              k < l => (r[k].term # r[l].term /\ r[k].count >= r[l].count)
        /\ \A i \in matching :
              ~Shown(i) => \A k \in 1..Len(r) : r[k].count >= Len(index.terms[i].ids)

\* C19: get_suggestions(q, limit) returns the terms of the stored index that
\* start with normalize_text(q), each with the length of its postings list,
\* in non-increasing order of length and cut to limit; when no index is
\* stored, the index of the current catalog is built and stored first.
C19_SuggestionsRankedByCount ==
    [][ op'.name = "get_suggestions" =>
            /\ search_index' # NoIndex
            /\ search_index # NoIndex => search_index' = search_index
            /\ search_index = NoIndex =>
                   /\ IndexedIds(search_index') = IdSet(products)
                   /\ Postings(search_index') = Postings(build_search_index(products))
            /\ IsSuggestionList(ret', search_index', op'.query, op'.limit) ]_vars

\* suggestions were cut to a limit of 1, and the term that is returned is not
\* the first matching term of the index: it has the longer postings list
C19_Witness ==
    /\ pc = "done"
    /\ op.name = "get_suggestions"
    /\ op.limit = 1
    /\ Len(ret) = 1
    /\ \E i \in MatchingTerms(search_index, op.query) :
          /\ Len(search_index.terms[i].ids) < ret[1].count
          /\ \A j \in MatchingTerms(search_index, op.query) : i <= j

\* the score the recommendation call gave product p
ScoreOfCall(p) ==
    LET name == IF op.name = "get_ai_recommendations"
                THEN (IF op.context = "product" /\ op.product_id # 0 THEN "get_upsells_for_product"
                      ELSE IF op.context = "cart" THEN "get_cart_upsells"
                      ELSE IF op.context = "checkout" THEN "get_checkout_upsells"
                      ELSE IF op.context = "post_purchase" THEN "get_post_purchase_upsells"
                      ELSE "get_popular_products")
                ELSE op.name
        items == IF op.name = "get_ai_recommendations" THEN <<>> ELSE cart
    IN  IF name = "get_upsells_for_product"
        THEN (IF op.product_id \in IdSet(products_v5)
              THEN UpsellScore(SeedOf(op.product_id), p) ELSE PopularScore(p))
        ELSE IF name = "get_cart_upsells" THEN CartScore(items, p)
        ELSE IF name = "get_checkout_upsells" THEN CheckoutScore(p)
        ELSE IF name = "get_post_purchase_upsells" THEN PostPurchaseScore(items, p)
        ELSE PopularScore(p)

\* C20: a recommendation result is in non-increasing order of score, products
\* of equal score are in catalog order, and it has at most limit products (3
\* when the caller gives no limit).
C20_RankedStableWithinLimit ==
    Recommended =>
        /\ Len(ret) <= op.limit
        /\ \A i, j \in 1..Len(ret) :
              i < j =>
                  /\ RGeq(ScoreOfCall(ret[i]), ScoreOfCall(ret[j]))
                  /\ ScoreOfCall(ret[i]) = ScoreOfCall(ret[j])
                     => IndexOfId(products_v5, ret[i].id) < IndexOfId(products_v5, ret[j].id)

\* a call without a limit returned 3 of more than 3 products, the first two
\* of equal score and the first with the larger id
C20_Witness ==
    /\ Recommended
    /\ op.limit = DefaultUpsellLimit
    /\ Len(ret) = DefaultUpsellLimit
    /\ Len(products_v5) > DefaultUpsellLimit + 1
    /\ ScoreOfCall(ret[1]) = ScoreOfCall(ret[2])
    /\ ret[1].id > ret[2].id

\* C21: search_products on an empty or absent catalog returns results = []
\* and total = 0 for any query, filters and sort key, and no error.
C21_EmptyCatalogEmptyResult ==
    (SearchCalled /\ load_products = <<>>) =>
        /\ ~Has(ret, "error")
        /\ Has(ret, "results") /\ ret.results = <<>>
        /\ Has(ret, "total") /\ ret.total = 0

\* a search with a price bound that is not a number and an unknown sort key
\* has returned while there is no catalog file
C21_Witness ==
    /\ SearchCalled
    /\ ~catalog_exists
    /\ MalformedSearch
    /\ apply_filters_raises(op.filters)
    /\ Has(ret, "total")

\* C22: every call of search_products returns a record with the five fields
\* results, total, query, filters and sort, also for an empty catalog, and
\* results holds the first min(total, limit) of the total matched products.
C22_FiveFieldResult ==
    SearchCalled =>
        /\ DOMAIN ret = {"results", "total", "query", "filters", "sort"}
        /\ ret.query = op.query
        /\ ret.sort = op.sort_by
        /\ Len(ret.results) = Min2(ret.total, op.limit)

\* the calls of search_products and of the recommendation functions
ReadOnlyCalls ==
    {"search_products", "get_upsells_for_product", "get_cart_upsells",
     "get_checkout_upsells", "get_post_purchase_upsells", "get_popular_products",
     "get_ai_recommendations"}

\* C23: no search or recommendation call mutates the catalog: every product
\* record and the catalog order are after the call what they were before it.
C23_CatalogNotMutated ==
    [][op'.name \in ReadOnlyCalls =>
          /\ products' = products
          /\ catalog_exists' = catalog_exists
          /\ products_v5' = products_v5]_vars

\* a search has returned more than one product, the first of them not the
\* first of the catalog
C23_Witness ==
    /\ SearchCalled
    /\ Has(ret, "filters")
    /\ Len(ret.results) > 1
    /\ ret.results[1] # products[1]

LowercaseDigitsSpace ==
    {LowerChars[i] : i \in 1..26} \cup {DigitChars[i] : i \in 1..10} \cup {" "}

\* C24: normalize_text returns "" for None or empty input; for every other
\* input its result holds only lowercase letters, digits and single spaces
\* (the underscore too is replaced by a space), with no leading, trailing or
\* consecutive spaces.
C24_NormalizedAlphabet ==
    op.name = "normalize_text" =>
        /\ (Has(op.input, "none") \/ op.input = [text |-> <<>>]) => ret.text = <<>>
        /\ Range(ret.text) \subseteq LowercaseDigitsSpace
        /\ ret.text # <<>> => (ret.text[1] # " " /\ ret.text[Len(ret.text)] # " ")
        /\ \A i \in 1..(Len(ret.text) - 1) : ~(ret.text[i] = " " /\ ret.text[i + 1] = " ")

\* the whitespace-free tokens of at least 3 characters of the normalized
\* title and of the normalized tags of a product
TokensOf(product) ==
    LET tags == Get(product, "tags", <<>>)
        texts == {Get(product, "title", <<>>)} \cup Range(tags)
    IN  {w \in UNION {Range(split(normalize_text(t))) : t \in texts} : Len(w) >= 3}

\* C26: every key of the terms map of the index is one whitespace-free token
\* of at least 3 characters, and a product id is listed under a term exactly
\* when the term is such a token of the product's normalized title or of one
\* of its normalized tags.
C26_TermsAreTokens ==
    op.name = "build_search_index" =>
        /\ \A i \in 1..Len(ret.terms) :
              /\ " " \notin Range(ret.terms[i].key)
              /\ Len(ret.terms[i].key) >= 3
              /\ \A k \in 1..Len(products) :
                    products[k].id \in Range(ret.terms[i].ids)
                        => ret.terms[i].key \in TokensOf(products[k])
        /\ \A k \in 1..Len(products) : \A w \in TokensOf(products[k]) :
              \E i \in 1..Len(ret.terms) :
                  /\ ret.terms[i].key = w
                  /\ products[k].id \in Range(ret.terms[i].ids)

\* the runs that have acquired the lock and are executing their tasks
Executing == {r \in RunIds : runs[r].pc = "tasks"}

\* C25: of the scheduler runs that start while no lock older than one hour
\* exists at most one acquires the lock; two runs never execute their tasks
\* at the same time.
C25_NoOverlap ==
    \A r1, r2 \in Executing :
        r1 # r2 => (runs[r1].saw = "stale" \/ runs[r2].saw = "stale")

\* run r removes the lock file in this step
Removes(r) ==
    /\ runs[r].pc = "remove"
    /\ lock_file.exists
    /\ ~lock_file'.exists

\* C27: the lock file is removed only by the run that holds it: a run that
\* failed to acquire the lock never deletes it, and a run whose lock was
\* taken over as stale does not delete the lock of the run that took over.
C27_RemovedByHolder ==
    [][\A r \in RunIds :
          Removes(r) =>
              /\ runs[r].saw # "fresh"
              /\ ~(/\ lock_file.writer \in RunIds \ {r}
                   /\ runs[lock_file.writer].saw = "stale"
                   /\ runs[lock_file.writer].pc = "tasks")]_vars

\* the templates of the emails the email API accepted for a cart, in the
\* order sent
TemplatesSent(log, cart_id) ==
    LET IsOfCart(e) == e.cart_id = cart_id /\ e.success
        sent == SelectSeq(log, IsOfCart)
    IN  [i \in 1..Len(sent) |-> sent[i].stage]

StageTemplates == [i \in 1..Len(RECOVERY_STAGES) |-> RECOVERY_STAGES[i].template]

\* C28: after any sequence of track_cart, process_recovery_emails and
\* mark_cart_converted calls the emails sent for a tracked cart are the
\* first recovery_stage templates of reminder_1, reminder_2, final_offer, in
\* that order, none skipped, with recovery_stage in 0..3, and every email a
\* call sends is for a cart whose status was "active".
C28_RecoveryInStageOrder ==
    [][/\ \A i \in 1..Len(abandoned_carts') :
             LET c == abandoned_carts'[i] IN
             /\ c.recovery_stage \in 0..3
             /\ TemplatesSent(recovery_log', c.id) = Take(StageTemplates, c.recovery_stage)
       /\ \A k \in (Len(recovery_log) + 1)..Len(recovery_log') :
             \E i \in 1..Len(abandoned_carts) :
                 /\ abandoned_carts[i].id = recovery_log'[k].cart_id
                 /\ abandoned_carts[i].status = "active"]_vars

\* C29: the uses counter of a coupon created with max_uses = N, N >= 1, never
\* exceeds N after any sequence of validate_coupon and apply_coupon calls,
\* and validate_coupon reports the coupon valid only while uses < N.
C29_UsesWithinMaxUses ==
    /\ \A i \in 1..Len(coupons) :
          coupons[i].max_uses >= 1 => coupons[i].uses <= coupons[i].max_uses
    /\ (op.name = "validate_coupon" /\ ret.valid /\ ret.coupon.max_uses >= 1)
          => ret.coupon.uses < ret.coupon.max_uses

TierRank(tier) == CHOOSE i \in 1..Len(TIERS) : TIERS[i].name = tier

\* C30: after any sequence of create_account, earn_points with non-negative
\* amounts, redeem_reward and apply_referral every account has
\* 0 <= points <= lifetime_points, its lifetime_points never decrease, and its
\* tier, the stored one and the one of its lifetime_points, never gets lower.
C30_PointsAndTierMonotone ==
    [][/\ \A u \in DOMAIN accounts' :
             /\ 0 <= accounts'[u].points
             /\ accounts'[u].points <= accounts'[u].lifetime_points
       /\ \A u \in DOMAIN accounts :
             /\ u \in DOMAIN accounts'
             /\ accounts'[u].lifetime_points >= accounts[u].lifetime_points
             /\ TierRank(accounts'[u].tier) >= TierRank(accounts[u].tier)
             /\ TierRank(get_tier(accounts'[u].lifetime_points))
                   >= TierRank(get_tier(accounts[u].lifetime_points))]_vars

\* an account that has reached gold has redeemed a reward and holds fewer
\* points than it has earned
C30_Witness ==
    \E u \in DOMAIN accounts :
        /\ accounts[u].tier = "gold"
        /\ accounts[u].redeemed_rewards # <<>>
        /\ accounts[u].points < accounts[u].lifetime_points

====
